---- MODULE Spec2Model ----
(***************************************************************************)
(* Westminster Standards extraction scripts: the rate-limited verse        *)
(* fetcher, the clause segmenters, the footnote binders and the            *)
(* verification gates of the build scripts.                                *)
(*                                                                         *)
(* Text is a sequence of one-character strings, so that strip(), the       *)
(* whitespace normalisation of clean_text and the footnote regular         *)
(* expressions are computed, character by character, as the scripts do.    *)
(***************************************************************************)
EXTENDS Integers, Sequences, FiniteSets, TLC

VARIABLES
    \* ---- BibleAPIFetcher (complete_westminster_confession.py)
    now,                \* time.time(), in clock readings (PerSecond to the second)
    request_count,      \* self.request_count
    last_request_time,  \* self.last_request_time
    cache,              \* self.cache: reference -> text, NoEntry when absent
    sent,               \* times of the remote requests made (the last SentKept)
    nsent,              \* number of remote requests made so far
    ticks,              \* number of times the clock was advanced
    lastCall,           \* what the last get_verse_text call did
    \* ---- clause segmentation of one answer
    script,             \* the script whose segmenter runs
    spans,              \* the answer's spans, page numbers already skipped
    answer,             \* the answer text built from the spans
    pos,                \* index of the next span of the loop
    current_clause,     \* the running clause buffer
    current_footnote,   \* the footnote number the loop carries
    clauses,            \* the clauses emitted so far
    segpc,              \* "idle", "loop", "done"
    \* ---- one run of a script over a whole document
    mscript,            \* the script that runs
    streams,            \* the document: the spans of each question's answer
    table,              \* the footnotes extracted: number -> proof texts
    questions,          \* the question records built by the run
    failed,             \* the check that failed, "none" when none did
    output,             \* the output file
    mainpc,             \* the position of the run
    \* ---- binding proof texts to the clauses of a document
    bscript,            \* the script that binds
    bclauses,           \* the clauses, as read and then as written
    references,         \* the references file: number -> proof texts
    missing_footnotes,  \* the footnotes reported missing
    bindpc,             \* the position of the run
    \* ---- building the footnote table from the footnote section of a PDF
    tscript,            \* the script that builds the table
    tlines,             \* the section: its lines, each a sequence of spans
    tpos,               \* index of the next span of the loop
    current_footnote_num,   \* the footnote the loop is in
    current_footnote_spans, \* what the loop kept of that footnote
    refs,               \* the table built so far: number -> proof texts
    tfootnotes,         \* the footnote numbers step 2 returns
    tresult,            \* what the run returned or wrote, and what it printed
    tpc,                \* the position of the run
    \* ---- looking the citations of a section up
    lscript,            \* the script that looks the citations up
    citations,          \* the citations of the section, in order
    lpos,               \* index of the next citation of the loop
    proof_texts,        \* the proof texts built so far
    bible_data,         \* whether the KJV data was loaded
    looked,             \* the lookups made so far: reference, value, remote or not
    lpc,                \* the position of the run
    \* ---- joining the parts of a reference split over bold spans
    jscript,            \* the script whose combiner runs
    jspans,             \* the spans of the footnote, after its number
    jrefs,              \* the references the combiner returns
    \* ---- normalising two references
    nfn,                \* the function that normalises
    nrefs,              \* the two references, as cited
    nout,               \* what the function gives for each
    \* ---- running an extraction twice on the same input
    escript,            \* the script whose extraction runs
    paragraphs,         \* the section paragraphs of the page, in document order
    estreams,           \* the span streams of the questions of the document
    runs,               \* what each run so far returned
    \* ---- formatting the verses the API returned
    fscript,            \* the script whose get_verse_text runs
    freference,         \* the reference asked for
    fdata,              \* the JSON the API answered with
    fresult,            \* what get_verse_text returned
    \* ---- fixing the proof texts of one question
    pscript,            \* the script whose process_question runs
    panswer,            \* the answer of the question
    pclauses,           \* the clauses of the question as loaded
    presult,            \* the clauses after process_question
    \* ---- collecting the spans of one answer from the page
    gscript,            \* the script whose extraction of a question runs
    gline,              \* the spans of the lines of the answer, as the page has them
    gspans,             \* all_spans, the spans that were kept
    gclauses            \* the clauses of the question

rateVars == <<now, request_count, last_request_time, cache, sent, nsent, ticks, lastCall>>
segVars == <<script, spans, answer, pos, current_clause, current_footnote, clauses, segpc>>

mainVars == <<mscript, streams, table, questions, failed, output, mainpc>>
bindVars == <<bscript, bclauses, references, missing_footnotes, bindpc>>
tableVars == <<tscript, tlines, tpos, current_footnote_num, current_footnote_spans,
               refs, tfootnotes, tresult, tpc>>

lookVars == <<lscript, citations, lpos, proof_texts, bible_data, looked, lpc>>

\* The inputs and results of the functions that run on one value.
combineVars == <<jscript, jspans, jrefs>>
normVars == <<nfn, nrefs, nout>>
twiceVars == <<escript, paragraphs, estreams, runs>>
formatVars == <<fscript, freference, fdata, fresult>>
fixVars == <<pscript, panswer, pclauses, presult>>
pageVars == <<gscript, gline, gspans, gclauses>>
pureVars == <<combineVars, normVars, twiceVars, formatVars, fixVars, pageVars>>

vars == <<rateVars, segVars, mainVars, bindVars, tableVars, lookVars, pureVars>>

-----------------------------------------------------------------------------
(* Bounds of the model *)

StartTime == 100        \* time.time() when the run starts (any reading past 30 seconds)
PerSecond == 2          \* readings of the clock in a second
MaxTicks == 2           \* clock advances explored
MaxRequests == 16       \* remote requests explored
MaxSpans == 5           \* spans of one answer
MaxClauses == 2         \* clauses of the document a binder reads
ExpectedQuestions == 2  \* questions of the document (196 in the Larger Catechism)
MaxTableQuestions == 1  \* questions of a document read together with a footnote table
FootnoteCount == 2      \* footnotes of the document (1303 in the Larger Catechism)
MaxLines == 3           \* lines of the footnote section of a PDF
MaxRefs == 2            \* citations of a section
MaxParts == 3           \* spans of a footnote
MaxParagraphs == 2      \* section paragraphs of a page
MaxDocQuestions == 2    \* questions of a document
MaxRuns == 2            \* runs on the same input
MaxVerses == 2          \* verses of an answer of the API
MaxPieces == 3          \* pieces of an answer with markers
MaxFixClauses == 2      \* clauses of a question whose proof texts are fixed
MaxPageSpans == 3       \* spans of the lines of an answer on the page

(* Program constants *)

RateWindow == 30        \* "Reset counter every 30 seconds"
RateLimit == 14         \* "if self.request_count >= 14"
SleepUntil == 31        \* "sleep_time = 31 - (current_time - self.last_request_time)"

SentKept == RateLimit + 1

\* What the clock may advance by between two calls: the least it can tell
\* apart, and the 30 seconds of the window.
TickSet == {1, RateWindow * PerSecond}

Refs == {"Romans 1:19-20", "Psalm 19:1"}
NoEntry == "<absent>"
NoneValue == "<None>"

\* Python's None where a footnote number is expected.
NoFootnote == -1

-----------------------------------------------------------------------------
(* Each script runs on its own: while one runs, the state of the others is  *)
(* the state before they start.                                             *)

RateIdle ==
    /\ now = StartTime
    /\ request_count = 0
    /\ last_request_time = 0
    /\ cache = [r \in Refs |-> NoEntry]
    /\ sent = <<>>
    /\ nsent = 0
    /\ ticks = 0
    /\ lastCall = [ref |-> NoEntry, value |-> NoneValue, remote |-> FALSE, slept |-> FALSE]

SegIdle ==
    /\ script = "none"
    /\ spans = <<>>
    /\ answer = <<>>
    /\ pos = 1
    /\ current_clause = <<>>
    /\ current_footnote = NoFootnote
    /\ clauses = <<>>
    /\ segpc = "idle"

\* A footnote table with no entry.
EmptyTable == [n \in {} |-> <<>>]

\* The output file before anything is written to it.
NoOutput == [written |-> FALSE, questions |-> <<>>, footnotes |-> EmptyTable,
             missing_footnotes |-> <<>>]

MainIdle ==
    /\ mscript = "none"
    /\ streams = <<>>
    /\ table = EmptyTable
    /\ questions = <<>>
    /\ failed = "none"
    /\ output = NoOutput
    /\ mainpc = "idle"

BindIdle ==
    /\ bscript = "none"
    /\ bclauses = <<>>
    /\ references = EmptyTable
    /\ missing_footnotes = <<>>
    /\ bindpc = "idle"

\* The result of a table run before it ends.
NoError == [kind |-> "none", found |-> 0, numbers |-> {}]
NoResult == [status |-> "none", table |-> EmptyTable, error |-> NoError, warnings |-> <<>>]

TableIdle ==
    /\ tscript = "none"
    /\ tlines = <<>>
    /\ tpos = 1
    /\ current_footnote_num = NoFootnote
    /\ current_footnote_spans = <<>>
    /\ refs = EmptyTable
    /\ tfootnotes = <<>>
    /\ tresult = NoResult
    /\ tpc = "idle"

LookIdle ==
    /\ lscript = "none"
    /\ citations = <<>>
    /\ lpos = 1
    /\ proof_texts = <<>>
    /\ bible_data = FALSE
    /\ looked = <<>>
    /\ lpc = "idle"

CombineIdle ==
    /\ jscript = "none"
    /\ jspans = <<>>
    /\ jrefs = <<>>

NormIdle ==
    /\ nfn = "none"
    /\ nrefs = <<>>
    /\ nout = <<>>

TwiceIdle ==
    /\ escript = "none"
    /\ paragraphs = <<>>
    /\ estreams = <<>>
    /\ runs = <<>>

FormatIdle ==
    /\ fscript = "none"
    /\ freference = <<>>
    /\ fdata = <<>>
    /\ fresult = <<>>

FixIdle ==
    /\ pscript = "none"
    /\ panswer = <<>>
    /\ pclauses = <<>>
    /\ presult = <<>>

PageIdle ==
    /\ gscript = "none"
    /\ gline = <<>>
    /\ gspans = <<>>
    /\ gclauses = <<>>

PureIdle == CombineIdle /\ NormIdle /\ TwiceIdle /\ FormatIdle /\ FixIdle /\ PageIdle

-----------------------------------------------------------------------------
(* Text: a sequence of one-character strings *)

Digits == {"1", "2"}         \* the digits the modelled answers use
Letters == {"a", "b"}
Space == " "

DigitChars == <<"0", "1", "2", "3", "4", "5", "6", "7", "8", "9">>
AllDigits == {DigitChars[i] : i \in 1..10}

DigitValue(c) == (CHOOSE i \in 1..10 : DigitChars[i] = c) - 1

\* str.isdigit(): non-empty and digits only.
IsDigit(t) == t # <<>> /\ \A i \in 1..Len(t) : t[i] \in AllDigits

\* A character that \w matches; \b lies between such a character and another.
IsWordChar(c) == c \in AllDigits \/ c \in Letters

RECURSIVE StrOf(_)
\* str(n) of a number n >= 0.
StrOf(n) == IF n < 10 THEN <<DigitChars[n + 1]>>
            ELSE StrOf(n \div 10) \o <<DigitChars[(n % 10) + 1]>>

\* text[a:b] with a, b counted from 1: the characters a .. b-1.
Slice(t, a, b) == SubSeq(t, a, b - 1)

\* Whether sub occurs in t at index i.
OccursAt(t, sub, i) ==
    i + Len(sub) - 1 <= Len(t) /\ SubSeq(t, i, i + Len(sub) - 1) = sub

\* text.find(sub, start), counted from 1; 0 when sub does not occur.
Find(t, sub, start) ==
    IF \E i \in start..Len(t) : OccursAt(t, sub, i)
    THEN CHOOSE i \in start..Len(t) :
            OccursAt(t, sub, i) /\ \A j \in start..(i - 1) : ~OccursAt(t, sub, j)
    ELSE 0

RECURSIVE IntOf(_)
\* int(text) of a digit string.
IntOf(t) == IF t = <<>> THEN 0
            ELSE 10 * IntOf(SubSeq(t, 1, Len(t) - 1)) + DigitValue(t[Len(t)])

RECURSIVE LStrip(_)
LStrip(t) == IF t # <<>> /\ t[1] = Space THEN LStrip(Tail(t)) ELSE t

RECURSIVE RStrip(_)
RStrip(t) == IF t # <<>> /\ t[Len(t)] = Space
             THEN RStrip(SubSeq(t, 1, Len(t) - 1)) ELSE t

\* str.strip()
Strip(t) == RStrip(LStrip(t))

RECURSIVE CollapseSpaces(_)
\* re.sub(r'\s+', ' ', text)
CollapseSpaces(t) ==
    IF Len(t) < 2 THEN t
    ELSE IF t[1] = Space /\ t[2] = Space THEN CollapseSpaces(Tail(t))
    ELSE <<t[1]>> \o CollapseSpaces(Tail(t))

\* clean_text(text): whitespace runs become one space, then strip().
clean_text(t) == Strip(CollapseSpaces(t))

RECURSIVE JoinWithSpace(_)
\* " ".join(texts)
JoinWithSpace(ts) ==
    IF ts = <<>> THEN <<>>
    ELSE IF Len(ts) = 1 THEN ts[1]
    ELSE ts[1] \o <<Space>> \o JoinWithSpace(Tail(ts))

-----------------------------------------------------------------------------
(* Regular expressions of Python's re module, as data: a node is a         *)
(* character class, a sequence, an alternative, an optional part, a        *)
(* repetition or a zero-width test. Ends(re, t, P) is the set of indexes   *)
(* at which a match of re can end when it starts at an index of P, so a    *)
(* pattern matches at p exactly when Ends(re, t, {p}) is not empty.        *)

Upper == {"A", "B", "C", "D", "E", "F", "G", "H", "I", "J", "K", "L", "M",
          "N", "O", "P", "Q", "R", "S", "T", "U", "V", "W", "X", "Y", "Z"}
Lower == {"a", "b", "c", "d", "e", "f", "g", "h", "i", "j", "k", "l", "m",
          "n", "o", "p", "q", "r", "s", "t", "u", "v", "w", "x", "y", "z"}
WordChars == Upper \cup Lower \cup AllDigits \cup {"_"}

ReSet(S) == [op |-> "set", chars |-> S, items |-> <<>>]
ReNot(S) == [op |-> "not", chars |-> S, items |-> <<>>]
ReSeq(rs) == [op |-> "seq", chars |-> {}, items |-> rs]
ReOpt(r) == [op |-> "opt", chars |-> {}, items |-> <<r>>]
ReStar(r) == [op |-> "star", chars |-> {}, items |-> <<r>>]
RePlus(r) == [op |-> "plus", chars |-> {}, items |-> <<r>>]
ReEnd == [op |-> "end", chars |-> {}, items |-> <<>>]
ReWordBoundary == [op |-> "wb", chars |-> {}, items |-> <<>>]

\* \d, \s and . of the patterns (the texts have no newline).
ReDigit == ReSet(AllDigits)
ReSpace == ReSet({Space})
ReAny == ReNot({})

\* Whether the character before index p is a word character.
WordBefore(t, p) == p > 1 /\ t[p - 1] \in WordChars
WordAt(t, p) == p <= Len(t) /\ t[p] \in WordChars

RECURSIVE Ends(_, _, _)
RECURSIVE EndsOfSeq(_, _, _)
RECURSIVE EndsOfStar(_, _, _)

\* The ends of the matches of one node from the indexes of P.
EndsFrom(re, t, P) ==
    CASE re.op = "set" -> {p + 1 : p \in {q \in P : q <= Len(t) /\ t[q] \in re.chars}}
      [] re.op = "not" -> {p + 1 : p \in {q \in P : q <= Len(t) /\ t[q] \notin re.chars}}
      [] re.op = "seq" -> EndsOfSeq(re.items, t, P)
      [] re.op = "opt" -> P \cup Ends(re.items[1], t, P)
      [] re.op = "star" -> EndsOfStar(re.items[1], t, P)
      [] re.op = "plus" -> UNION {EndsOfStar(re.items[1], t, Q) : Q \in {Ends(re.items[1], t, P)}}
      [] re.op = "end" -> {p \in P : p = Len(t) + 1}
      [] re.op = "wb" -> {p \in P : WordBefore(t, p) # WordAt(t, p)}

\* The text and the indexes are computed once (s and Q), then the node is
\* matched.
Ends(re, t, P) == UNION {EndsFrom(re, s, Q) : s \in {t}, Q \in {P}}

EndsOfSeq(rs, t, P) ==
    IF rs = <<>> \/ P = {} THEN P
    ELSE UNION {EndsOfSeq(Tail(rs), t, Q) : Q \in {Ends(rs[1], t, P)}}

EndsOfStar(r, t, P) ==
    UNION {IF Q = P THEN P ELSE EndsOfStar(r, t, Q) : Q \in {P \cup Ends(r, t, P)}}

\* re.match(pattern, text): the pattern matches at the start of the text.
re_match(re, t) == Ends(re, t, {1}) # {}

\* text.rstrip('.')
RECURSIVE RStripDot(_)
RStripDot(t) == IF t # <<>> /\ t[Len(t)] = "."
                THEN RStripDot(SubSeq(t, 1, Len(t) - 1)) ELSE t

RECURSIVE Concat(_)
\* The sequences of a sequence, one after the other.
Concat(qs) == IF qs = <<>> THEN <<>> ELSE qs[1] \o Concat(Tail(qs))

-----------------------------------------------------------------------------
(* Spans of an answer, as the PDF layout pass gives them. Font sizes are in *)
(* tenths of a point.                                                       *)

BodySize == 100
SmallSize == 84
FootnoteSizeLimit == 90     \* "font_size < 9.0"

Span(t, size) == [text |-> t, font_size |-> size]

SpanKinds ==
    { Span(<<"a">>, BodySize), Span(<<"b">>, BodySize),
      Span(<<"1">>, SmallSize), Span(<<"2">>, SmallSize),
      Span(<<"1", ".">>, BodySize) }

RECURSIVE SeqsOfLen(_, _)
SeqsOfLen(S, n) ==
    IF n = 0 THEN {<<>>}
    ELSE {Append(q, x) : q \in SeqsOfLen(S, n - 1), x \in S}

SeqsUpTo(S, n) == UNION {SeqsOfLen(S, k) : k \in 0..n}

\* "if text.isdigit() and font_size < 9.0": the span is a footnote number.
IsFootnoteSpan(span) == IsDigit(span.text) /\ span.font_size < FootnoteSizeLimit

RECURSIVE AnswerOfSpans(_)
\* extract_question_multi_page: "answer_text += span['text'] + ' '"
AnswerOfSpans(ss) ==
    IF ss = <<>> THEN <<>>
    ELSE ss[1].text \o <<Space>> \o AnswerOfSpans(Tail(ss))

Clause(t, n) == [text |-> t, footnote |-> n]

-----------------------------------------------------------------------------
(* extract_clauses_from_spans, in its two versions.                         *)
(* extract_multi_page_catechism.py (and, line for line the same,            *)
(* extract_clauses_complete of extract_complete_catechism.py) saves the     *)
(* buffer with the footnote carried so far and then takes the new number;   *)
(* create_shorter_catechism_no_references.py takes the new number first.    *)

MultiPage == "extract_multi_page_catechism"
ShorterNoRefs == "create_shorter_catechism_no_references"
SpanScripts == {MultiPage, ShorterNoRefs}

\* The footnote number given to the clause that a footnote span closes.
ClosingFootnote(sc, carried, n) == IF sc = MultiPage THEN carried ELSE n

\* "if current_clause.strip(): clauses.append({...})"
SaveClause(cs, buffer, n) ==
    IF Strip(buffer) # <<>> THEN Append(cs, Clause(clean_text(buffer), n)) ELSE cs

\* One round of the loop on a footnote span.
SegFootnoteSpan ==
    /\ segpc = "loop"
    /\ script \in SpanScripts
    /\ pos <= Len(spans)
    /\ IsFootnoteSpan(spans[pos])
    /\ LET n == IntOf(spans[pos].text)
       IN  /\ clauses' = SaveClause(clauses, current_clause,
                                    ClosingFootnote(script, current_footnote, n))
           /\ current_footnote' = n
    /\ current_clause' = <<>>
    /\ pos' = pos + 1
    /\ UNCHANGED <<script, spans, answer, segpc>>
    /\ UNCHANGED <<rateVars, mainVars, bindVars, tableVars, lookVars, pureVars>>

\* One round of the loop on any other span: "current_clause += ' ' + text".
SegBodySpan ==
    /\ segpc = "loop"
    /\ script \in SpanScripts
    /\ pos <= Len(spans)
    /\ ~IsFootnoteSpan(spans[pos])
    /\ current_clause' = current_clause \o <<Space>> \o spans[pos].text
    /\ pos' = pos + 1
    /\ UNCHANGED <<script, spans, answer, current_footnote, clauses, segpc>>
    /\ UNCHANGED <<rateVars, mainVars, bindVars, tableVars, lookVars, pureVars>>

\* After the loop: "Save last clause".
SegLastClause ==
    /\ segpc = "loop"
    /\ script \in SpanScripts
    /\ pos > Len(spans)
    /\ clauses' = SaveClause(clauses, current_clause, current_footnote)
    /\ segpc' = "done"
    /\ UNCHANGED <<script, spans, answer, pos, current_clause, current_footnote>>
    /\ UNCHANGED <<rateVars, mainVars, bindVars, tableVars, lookVars, pureVars>>

\* extract_clauses_from_spans is called on the spans of one answer.
SegStart(sc) ==
    /\ segpc = "idle"
    /\ script' = sc
    /\ pos' = 1
    /\ current_clause' = <<>>
    /\ current_footnote' = NoFootnote
    /\ clauses' = <<>>
    /\ segpc' = "loop"
    /\ UNCHANGED <<spans, answer>>
    /\ UNCHANGED <<rateVars, mainVars, bindVars, tableVars, lookVars, pureVars>>

-----------------------------------------------------------------------------
(* The regular expressions of the string segmenters. Each is a filter on    *)
(* the maximal runs of digits of the text: \d+ and \d{1,4} are greedy, and  *)
(* a shorter match would have to end inside the run, before a digit, where  *)
(* neither \b nor (?=\s|$) holds.                                           *)

\* The index after the run of digits that starts at i.
RECURSIVE RunEnd(_, _)
RunEnd(t, i) == IF i <= Len(t) /\ t[i] \in AllDigits THEN RunEnd(t, i + 1) ELSE i

\* The maximal runs of digits of t from index i on, as [start, end) pairs.
RECURSIVE DigitRunsFrom(_, _)
DigitRunsFrom(t, i) ==
    IF i > Len(t) THEN <<>>
    ELSE IF t[i] \in AllDigits
         THEN <<[start |-> i, end |-> RunEnd(t, i)]>> \o DigitRunsFrom(t, RunEnd(t, i))
         ELSE DigitRunsFrom(t, i + 1)

\* re.findall(r'\d+', text), with positions.
DigitRuns(t) == DigitRunsFrom(t, 1)

\* \b before the run: the text starts there or a non-word character precedes.
BoundaryBefore(t, r) == r.start = 1 \/ ~IsWordChar(t[r.start - 1])
\* \b after the run.
BoundaryAfter(t, r) == r.end > Len(t) \/ ~IsWordChar(t[r.end])

\* verify_input_data: r"\b(\d{1,4})\b"
MatchesNumber(t, r) ==
    BoundaryBefore(t, r) /\ r.end - r.start <= 4 /\ BoundaryAfter(t, r)

\* split_answer_into_clauses: r"\b(\d{1,4})\b(?!\.)", not followed by a period.
MatchesFootnote(t, r) ==
    MatchesNumber(t, r) /\ (r.end > Len(t) \/ t[r.end] # ".")

\* marker_pattern of the proof-text fixers: r'(\d+)(?=\s|$)'
MatchesMarker(t, r) == r.end > Len(t) \/ t[r.end] = Space

RunValue(t, r) == IntOf(Slice(t, r.start, r.end))

\* FOOTNOTE_RANGE = range(1, 1304), with FootnoteCount for 1303.
FOOTNOTE_RANGE == 1..FootnoteCount

-----------------------------------------------------------------------------
(* extract_larger_catechism_clauses.py: split_answer_into_clauses *)

\* footnote_positions: the matches whose number is in FOOTNOTE_RANGE.
FootnotePositions(t) ==
    LET Keep(r) == MatchesFootnote(t, r) /\ RunValue(t, r) \in FOOTNOTE_RANGE
    IN  SelectSeq(DigitRuns(t), Keep)

\* The clause of the i-th footnote: the text since the previous footnote,
\* then " " and the number.
LargerClauseAt(t, fp, i) ==
    LET before == IF i > 1 THEN Strip(Slice(t, fp[i - 1].end, fp[i].start))
                  ELSE Strip(Slice(t, 1, fp[i].start))
    IN  Clause(before \o <<Space>> \o StrOf(RunValue(t, fp[i])), RunValue(t, fp[i]))

WithTrailingClause(cs, trailing) ==
    IF trailing # <<>> THEN Append(cs, Clause(trailing, NoFootnote)) ELSE cs
\* "Handle trailing text": appended to the last clause.
WithTrailingText(cs, trailing) ==
    IF trailing # <<>>
    THEN [cs EXCEPT ![Len(cs)].text = @ \o <<Space>> \o trailing]
    ELSE cs

\* "No footnotes found - create one clause with entire answer"
WholeAnswerMissing(t) == <<>>
WholeAnswerClause(t) == <<Clause(Strip(t), NoFootnote)>>

LargerSplit(t) ==
    LET fp == FootnotePositions(t)
    IN  IF fp = <<>> THEN WholeAnswerClause(t)
        ELSE WithTrailingText([i \in 1..Len(fp) |-> LargerClauseAt(t, fp, i)],
                              Strip(Slice(t, fp[Len(fp)].end, Len(t) + 1)))

-----------------------------------------------------------------------------
(* fix_proof_texts_v2.py: extract_endnote_markers, split_answer_into_clauses *)

RECURSIVE RunValues(_, _, _)
RunValues(t, rs, i) ==
    IF i > Len(rs) THEN <<>> ELSE <<RunValue(t, rs[i])>> \o RunValues(t, rs, i + 1)

extract_endnote_markers(t) ==
    LET Keep(r) == MatchesMarker(t, r)
    IN  RunValues(t, SelectSeq(DigitRuns(t), Keep), 1)

\* The loop over the markers: current_pos is counted from 1.
RECURSIVE V2Loop(_, _, _, _, _)
V2Loop(t, markers, i, current_pos, cs) ==
    IF i > Len(markers) THEN [clauses |-> cs, current_pos |-> current_pos]
    ELSE LET marker_str == StrOf(markers[i])
             marker_pos == Find(t, marker_str, current_pos)
         IN  IF marker_pos = 0
             THEN V2Loop(t, markers, i + 1, current_pos, cs)
             ELSE V2Loop(t, markers, i + 1, marker_pos + Len(marker_str),
                         Append(cs, Clause(Strip(Slice(t, current_pos, marker_pos)),
                                           markers[i])))

V2RemainingDropped(t, current_pos, cs) == cs
\* "Add any remaining text as the last clause"
V2Remaining(t, current_pos, cs) ==
    IF current_pos <= Len(t) /\ Strip(Slice(t, current_pos, Len(t) + 1)) # <<>>
    THEN Append(cs, Clause(Strip(Slice(t, current_pos, Len(t) + 1)), NoFootnote))
    ELSE cs

V2Split(t) ==
    LET markers == extract_endnote_markers(t)
    IN  IF markers = <<>> THEN WholeAnswerClause(t)
        ELSE LET r == V2Loop(t, markers, 1, 1, <<>>)
             IN  V2Remaining(t, r.current_pos, r.clauses)

-----------------------------------------------------------------------------
(* verify_catechism_processing.py: split_answer_into_clauses *)

RECURSIVE VerifyLoop(_, _, _, _, _)
VerifyLoop(t, numbers, i, current_pos, cs) ==
    IF i > Len(numbers) THEN cs
    ELSE LET number == Slice(t, numbers[i].start, numbers[i].end)
             number_pos == Find(t, number, current_pos)
             clause_text == Strip(Slice(t, current_pos, number_pos + Len(number)))
         IN  IF number_pos = 0
             THEN VerifyLoop(t, numbers, i + 1, current_pos, cs)
             ELSE VerifyLoop(t, numbers, i + 1, number_pos + Len(number),
                             IF clause_text # <<>>
                             THEN Append(cs, Clause(clause_text, IntOf(number)))
                             ELSE cs)

\* "if not numbers: return []"
VerifySplit(t) == VerifyLoop(t, DigitRuns(t), 1, 1, <<>>)

-----------------------------------------------------------------------------
(* fix_larger_catechism_clauses.py: split_answer_into_clauses and the loop  *)
(* of fix_catechism_clauses that gives each clause its number.              *)

\* re.compile(r'(.*?\d+)').finditer: each match runs from the end of the
\* previous one to the end of the next run of digits; text after the last
\* run matches nothing.
FixLargerTexts(t) ==
    LET rs == DigitRuns(t)
    IN  [i \in 1..Len(rs) |->
            Strip(Slice(t, IF i = 1 THEN 1 ELSE rs[i - 1].end, rs[i].end))]

\* re.search(r'(\d+)$', clause): the digits the clause ends with.
RECURSIVE TrailingDigits(_)
TrailingDigits(t) ==
    IF t # <<>> /\ t[Len(t)] \in AllDigits
    THEN TrailingDigits(SubSeq(t, 1, Len(t) - 1)) \o <<t[Len(t)]>>
    ELSE <<>>

FixLargerSplit(t) ==
    LET texts == FixLargerTexts(t)
    IN  [i \in 1..Len(texts) |-> Clause(texts[i], IntOf(TrailingDigits(texts[i])))]

-----------------------------------------------------------------------------
(* The string segmenters run on the answer text of a question. *)

ExtractLarger == "extract_larger_catechism_clauses"
FixV2 == "fix_proof_texts_v2"
VerifyProcessing == "verify_catechism_processing"
FixLarger == "fix_larger_catechism_clauses"
StringScripts == {ExtractLarger, FixV2, VerifyProcessing, FixLarger}

SplitBy(sc, t) ==
    CASE sc = ExtractLarger -> LargerSplit(t)
      [] sc = FixV2 -> V2Split(t)
      [] sc = VerifyProcessing -> VerifySplit(t)
      [] sc = FixLarger -> FixLargerSplit(t)

SplitAnswer(sc) ==
    /\ segpc = "idle"
    /\ script' = sc
    /\ clauses' = SplitBy(sc, answer)
    /\ segpc' = "done"
    /\ UNCHANGED <<spans, answer, pos, current_clause, current_footnote>>
    /\ UNCHANGED <<rateVars, mainVars, bindVars, tableVars, lookVars, pureVars>>

InitSeg ==
    /\ RateIdle
    /\ TableIdle
    /\ LookIdle
    /\ PureIdle
    /\ MainIdle
    /\ BindIdle
    /\ script = "none"
    /\ spans \in SeqsUpTo(SpanKinds, MaxSpans)
    /\ answer = clean_text(AnswerOfSpans(spans))
    /\ pos = 1
    /\ current_clause = <<>>
    /\ current_footnote = NoFootnote
    /\ clauses = <<>>
    /\ segpc = "idle"

NextSeg ==
    \/ \E sc \in SpanScripts : SegStart(sc)
    \/ SegFootnoteSpan
    \/ SegBodySpan
    \/ SegLastClause
    \/ \E sc \in StringScripts : SplitAnswer(sc)

SpecSeg == InitSeg /\ [][NextSeg]_vars

-----------------------------------------------------------------------------
(* BibleAPIFetcher._rate_limit: the fields and the clock after the call,    *)
(* [count, last, clock, slept], from the fields and the clock before it.   *)
\* The counter is never reset by the age of the window.
NeverReset(count, last, t) == [count |-> count, last |-> last]

\* "if current_time - self.last_request_time > 30": the counter and the window
\* start after the reset test.
AfterReset(count, last, t) ==
    IF t - last > RateWindow * PerSecond
    THEN [count |-> 0, last |-> t]
    ELSE [count |-> count, last |-> last]

RateLimitCall(count, last, t) ==
    LET r == AfterReset(count, last, t)
        sleep_time == SleepUntil * PerSecond - (t - r.last)
    IN  IF r.count >= RateLimit /\ sleep_time > 0
        THEN \* time.sleep(sleep_time); the counter restarts at the wake-up time
             [count |-> 1, last |-> t + sleep_time, clock |-> t + sleep_time,
              slept |-> TRUE]
        ELSE [count |-> r.count + 1, last |-> r.last, clock |-> t, slept |-> FALSE]

\* The text the API returns for a reference.
VerseText(ref) == <<"text of", ref>>

KeepLast(s, n) == IF Len(s) <= n THEN s ELSE SubSeq(s, Len(s) - n + 1, Len(s))

-----------------------------------------------------------------------------
(* BibleAPIFetcher.get_verse_text *)

\* A cache hit that would pass through _rate_limit like a miss.
GetVerseTextLimited(ref) ==
    /\ cache[ref] # NoEntry
    /\ LET r == RateLimitCall(request_count, last_request_time, now)
       IN  /\ request_count' = r.count
           /\ last_request_time' = r.last
           /\ now' = r.clock
           /\ lastCall' = [ref |-> ref, value |-> cache[ref], remote |-> FALSE,
                           slept |-> r.slept]
    /\ UNCHANGED <<cache, sent, nsent, ticks>>
    /\ UNCHANGED <<segVars, mainVars, bindVars, tableVars, lookVars, pureVars>>

\* "if reference in self.cache: return self.cache[reference]"
GetVerseTextCached(ref) ==
    /\ cache[ref] # NoEntry
    /\ lastCall' = [ref |-> ref, value |-> cache[ref], remote |-> FALSE, slept |-> FALSE]
    /\ UNCHANGED <<now, request_count, last_request_time, cache, sent, nsent, ticks>>
    /\ UNCHANGED <<segVars, mainVars, bindVars, tableVars, lookVars, pureVars>>

\* A cache miss: _rate_limit(), then requests.get; ok is whether the request
\* succeeded (an exception returns None and caches nothing).
GetVerseTextRemote(ref, ok) ==
    /\ cache[ref] = NoEntry
    /\ nsent < MaxRequests
    /\ LET r == RateLimitCall(request_count, last_request_time, now)
       IN  /\ request_count' = r.count
           /\ last_request_time' = r.last
           /\ now' = r.clock
           /\ sent' = KeepLast(Append(sent, r.clock), SentKept)
           /\ nsent' = nsent + 1
           /\ cache' = IF ok THEN [cache EXCEPT ![ref] = VerseText(ref)] ELSE cache
           /\ lastCall' = [ref |-> ref,
                           value |-> IF ok THEN VerseText(ref) ELSE NoneValue,
                           remote |-> TRUE, slept |-> r.slept]
    /\ UNCHANGED <<ticks, segVars, mainVars, bindVars, tableVars, lookVars, pureVars>>

\* Time passing between two calls (the previous request's latency, the
\* caller's own work).
Tick(d) ==
    /\ ticks < MaxTicks
    /\ now' = now + d
    /\ ticks' = ticks + 1
    /\ UNCHANGED <<request_count, last_request_time, cache, sent, nsent, lastCall>>
    /\ UNCHANGED <<segVars, mainVars, bindVars, tableVars, lookVars, pureVars>>

InitRate ==
    /\ RateIdle
    /\ TableIdle
    /\ LookIdle
    /\ PureIdle
    /\ SegIdle
    /\ MainIdle
    /\ BindIdle

NextRate ==
    \/ \E ref \in Refs : GetVerseTextCached(ref)
    \/ \E ref \in Refs, ok \in BOOLEAN : GetVerseTextRemote(ref, ok)
    \/ \E d \in TickSet : Tick(d)

SpecRate == InitRate /\ [][NextRate]_vars

-----------------------------------------------------------------------------
-----------------------------------------------------------------------------
(* fix_proof_texts_v5.py: split_answer_into_clauses *)

RECURSIVE InsertByPos(_, _)
\* list.sort(key=position) is stable: x goes after the entries not after it.
InsertByPos(q, x) ==
    IF q = <<>> THEN <<x>>
    ELSE IF q[Len(q)].pos <= x.pos THEN Append(q, x)
    ELSE Append(InsertByPos(SubSeq(q, 1, Len(q) - 1), x), q[Len(q)])

RECURSIVE V5MarkerPositions(_, _, _)
\* "Find all marker positions", by the first occurrence of each marker's
\* digits, then "Sort by position".
V5MarkerPositions(t, markers, i) ==
    IF i = 0 THEN <<>>
    ELSE LET marker_pos == Find(t, StrOf(markers[i]), 1)
             before == V5MarkerPositions(t, markers, i - 1)
         IN  IF marker_pos = 0 THEN before
             ELSE InsertByPos(before, [pos |-> marker_pos, marker |-> markers[i]])

RECURSIVE V5Loop(_, _, _, _, _)
V5Loop(t, mps, i, current_pos, cs) ==
    IF i > Len(mps) THEN [clauses |-> cs, current_pos |-> current_pos]
    ELSE V5Loop(t, mps, i + 1, mps[i].pos + Len(StrOf(mps[i].marker)),
                Append(cs, Clause(Strip(Slice(t, current_pos, mps[i].pos)), mps[i].marker)))

\* "Add any remaining text as the last clause", split once more at the first
\* marker it still holds.
V5Remaining(t, current_pos, cs) ==
    LET remaining_text == Strip(Slice(t, current_pos, Len(t) + 1))
        remaining_markers == extract_endnote_markers(remaining_text)
    IN  IF current_pos > Len(t) \/ remaining_text = <<>> THEN cs
        ELSE IF remaining_markers = <<>> THEN Append(cs, Clause(remaining_text, NoFootnote))
        ELSE LET marker_str == StrOf(remaining_markers[1])
                 marker_pos == Find(remaining_text, marker_str, 1)
                 before_marker == Strip(Slice(remaining_text, 1, marker_pos))
                 after_marker == Strip(Slice(remaining_text, marker_pos + Len(marker_str),
                                             Len(remaining_text) + 1))
                 with_before == IF before_marker # <<>>
                                THEN Append(cs, Clause(before_marker, remaining_markers[1]))
                                ELSE cs
             IN  IF marker_pos = 0 THEN Append(cs, Clause(remaining_text, NoFootnote))
                 ELSE IF after_marker # <<>>
                 THEN Append(with_before, Clause(after_marker, NoFootnote))
                 ELSE with_before

V5Split(t) ==
    LET markers == extract_endnote_markers(t)
    IN  IF markers = <<>> THEN WholeAnswerClause(t)
        ELSE LET r == V5Loop(t, V5MarkerPositions(t, markers, Len(markers)), 1, 1, <<>>)
             IN  V5Remaining(t, r.current_pos, r.clauses)

-----------------------------------------------------------------------------
(* Binding proof texts to the clauses of a document:                         *)
(* create_larger_catechism_with_references.add_references_to_catechism,      *)
(* update_catechism_with_references.update_catechism_with_references and     *)
(* populate_proof_texts of fix_proof_texts_v2 / fix_proof_texts_v5.          *)

AddReferences == "create_larger_catechism_with_references"
UpdateCatechism == "update_catechism_with_references"
FixV5 == "fix_proof_texts_v5"

\* A proof text; its text is a sequence of pieces, so that a number can be
\* formatted into it.
ProofText(reference, text) == [reference |-> reference, text |-> text]

\* A clause as a binder reads it: has_list tells whether it has the key of
\* the proof-text list at all.
BindClause(t, n, has, pts) ==
    [text |-> t, footnote |-> n, has_list |-> has, proofTexts |-> pts]

VerseOfRomans == ProofText("Romans 1:19-20", <<"Because that which may be known of God">>)
StaleProof == ProofText("Psalm 19:1", <<"The heavens declare the glory of God">>)

\* The proof-text lists a footnote may have in the table.
ProofLists == {<<>>, <<VerseOfRomans>>}

\* The footnote tables: some of the footnotes 1..FootnoteCount, each with a list.
Tables(lists) == UNION {[S -> lists] : S \in SUBSET (1..FootnoteCount)}

\* The clauses of the input document: no footnote, footnote 0 .. FootnoteCount;
\* without the list, with an empty list, or with a list left by an earlier run.
BindClauseKinds ==
    {BindClause(<<"a">>, n, pre[1], pre[2]) :
        n \in {NoFootnote} \cup (0..FootnoteCount),
        pre \in {<<FALSE, <<>>>>, <<TRUE, <<>>>>, <<TRUE, <<StaleProof>>>>}}

\* json.load of the references file: its keys are the numbers as strings.
ReferencesFile(tbl) == [k \in {StrOf(n) : n \in DOMAIN tbl} |-> tbl[IntOf(k)]]

WithList(c, pts) == [c EXCEPT !.has_list = TRUE, !.proofTexts = pts]

\* add_references_to_catechism, for one clause.
AddReferencesToClause(c, references_data) ==
    IF c.footnote # NoFootnote
    THEN LET footnote_key == StrOf(c.footnote)
         IN  WithList(c, IF footnote_key \in DOMAIN references_data
                         THEN references_data[footnote_key] ELSE <<>>)
    ELSE WithList(c, <<>>)

\* update_catechism_with_references, for one clause.
UpdateClause(c, references_data) ==
    IF c.footnote # NoFootnote
    THEN LET footnote_num == StrOf(c.footnote)
         IN  IF footnote_num \in DOMAIN references_data
             THEN WithList(c, references_data[footnote_num])
             ELSE WithList(c, <<>>)
    ELSE c

\* The sentinel of populate_proof_texts.
NoSentinel(n) == <<>>
FootnoteNotFound(n) ==
    <<ProofText("ERROR: Footnote not found",
                <<"Footnote ">> \o StrOf(n) \o <<" not found in extracted footnotes">>)>>

\* "if footnote_num": neither None nor 0.
Truthy(n) == n # NoFootnote /\ n # 0

\* populate_proof_texts, for one clause.
PopulateClause(c, footnotes) ==
    IF Truthy(c.footnote) /\ c.footnote \in DOMAIN footnotes
    THEN WithList(c, footnotes[c.footnote])
    ELSE IF Truthy(c.footnote)
    THEN WithList(c, FootnoteNotFound(c.footnote))
    ELSE WithList(c, <<>>)

NothingMissing(cs, references_data) == <<>>

RECURSIVE MissingOf(_, _)
\* The missing_footnotes list of update_catechism_with_references.
MissingOf(cs, references_data) ==
    IF cs = <<>> THEN <<>>
    ELSE (IF cs[1].footnote # NoFootnote /\ StrOf(cs[1].footnote) \notin DOMAIN references_data
          THEN <<cs[1].footnote>> ELSE <<>>) \o MissingOf(Tail(cs), references_data)

AddReferencesToCatechism ==
    /\ bindpc = "idle"
    /\ bscript' = AddReferences
    /\ bclauses' = [i \in 1..Len(bclauses) |->
                      AddReferencesToClause(bclauses[i], ReferencesFile(references))]
    /\ bindpc' = "done"
    /\ UNCHANGED <<references, missing_footnotes>>
    /\ UNCHANGED <<rateVars, segVars, mainVars, tableVars, lookVars, pureVars>>

UpdateCatechismWithReferences ==
    /\ bindpc = "idle"
    /\ bscript' = UpdateCatechism
    /\ bclauses' = [i \in 1..Len(bclauses) |->
                      UpdateClause(bclauses[i], ReferencesFile(references))]
    /\ missing_footnotes' = MissingOf(bclauses, ReferencesFile(references))
    /\ bindpc' = "done"
    /\ UNCHANGED references
    /\ UNCHANGED <<rateVars, segVars, mainVars, tableVars, lookVars, pureVars>>

PopulateProofTexts(sc) ==
    /\ bindpc = "idle"
    /\ bscript' = sc
    /\ bclauses' = [i \in 1..Len(bclauses) |-> PopulateClause(bclauses[i], references)]
    /\ bindpc' = "done"
    /\ UNCHANGED <<references, missing_footnotes>>
    /\ UNCHANGED <<rateVars, segVars, mainVars, tableVars, lookVars, pureVars>>

InitBind ==
    /\ RateIdle
    /\ TableIdle
    /\ LookIdle
    /\ PureIdle
    /\ SegIdle
    /\ MainIdle
    /\ bscript = "none"
    /\ bclauses \in SeqsUpTo(BindClauseKinds, MaxClauses)
    /\ references \in Tables(ProofLists)
    /\ missing_footnotes = <<>>
    /\ bindpc = "idle"

NextBind ==
    \/ AddReferencesToCatechism
    \/ UpdateCatechismWithReferences
    \/ \E sc \in {FixV2, FixV5} : PopulateProofTexts(sc)

SpecBind == InitBind /\ [][NextBind]_vars

-----------------------------------------------------------------------------
(* Runs of a script over a whole document:                                   *)
(*   extract_larger_catechism_clauses.main,                                  *)
(*   the __main__ of extract_multi_page_catechism,                           *)
(*   extract_shorter_catechism_simple.main,                                  *)
(*   WestminsterProofTextFixerV5.fix_all_proof_texts.                        *)

SimpleExtractor == "extract_shorter_catechism_simple"
MainScripts == {ExtractLarger, MultiPage, SimpleExtractor, FixV5}

MaxQuestions == ExpectedQuestions + 1

SpanA == Span(<<"a">>, BodySize)
SpanB == Span(<<"b">>, BodySize)
Marker1 == Span(<<"1">>, SmallSize)
Marker2 == Span(<<"2">>, SmallSize)
ListNumber == Span(<<"1", ".">>, BodySize)
VerseNumber == Span(<<"1", ":", "2">>, BodySize)

\* The answers a document is made of, as span streams.
DocStreams ==
    { <<SpanA, Marker1>>,
      <<SpanB, Marker2>>,
      <<SpanA, Marker1, SpanB, Marker2>>,
      <<SpanA>>,
      <<SpanA, Marker1, SpanB>>,
      <<SpanB, Marker2, SpanA>>,
      <<SpanA, Marker1, SpanB, Marker1>>,
      <<ListNumber, SpanA, Marker2>>,
      <<SpanA, VerseNumber>> }

\* The answer text of a question, as the span extraction wrote it.
AnswerOf(ss) == clean_text(AnswerOfSpans(ss))

RECURSIVE SpanLoop(_, _, _, _, _, _)
\* extract_clauses_from_spans as a function of the spans: the loop of
\* SegFootnoteSpan and SegBodySpan, then SegLastClause.
SpanLoop(sc, ss, i, buffer, carried, cs) ==
    IF i > Len(ss) THEN SaveClause(cs, buffer, carried)
    ELSE IF IsFootnoteSpan(ss[i])
    THEN LET n == IntOf(ss[i].text)
         IN  SpanLoop(sc, ss, i + 1, <<>>, n,
                      SaveClause(cs, buffer, ClosingFootnote(sc, carried, n)))
    ELSE SpanLoop(sc, ss, i + 1, buffer \o <<Space>> \o ss[i].text, carried, cs)

extract_clauses_from_spans(sc, ss) == SpanLoop(sc, ss, 1, <<>>, NoFootnote, <<>>)

Question(a, cs) == [answer |-> a, clauses |-> cs]

RECURSIVE FootnotesOfClauses(_)
\* The footnote numbers of a clause list that are not None, in order.
FootnotesOfClauses(cs) ==
    IF cs = <<>> THEN <<>>
    ELSE (IF cs[1].footnote # NoFootnote THEN <<cs[1].footnote>> ELSE <<>>)
         \o FootnotesOfClauses(Tail(cs))

RECURSIVE AllFootnotes(_)
\* The footnote numbers of all the clauses of a document, in order.
AllFootnotes(qs) ==
    IF qs = <<>> THEN <<>>
    ELSE FootnotesOfClauses(qs[1].clauses) \o AllFootnotes(Tail(qs))

Range(q) == {q[i] : i \in 1..Len(q)}

RECURSIVE TotalClauses(_)
TotalClauses(qs) ==
    IF qs = <<>> THEN 0 ELSE Len(qs[1].clauses) + TotalClauses(Tail(qs))

\* extract_multi_page_catechism.verify_extraction
verify_extraction(qs) ==
    /\ Len(qs) = ExpectedQuestions
    /\ Cardinality(Range(AllFootnotes(qs))) = FootnoteCount

\* The valid footnote numbers verify_input_data finds in an answer.
InputFootnotes(t) ==
    {RunValue(t, r) : r \in {x \in Range(DigitRuns(t)) : MatchesNumber(t, x)}}
        \cap FOOTNOTE_RANGE

TotalInputFootnotes(data) == UNION {InputFootnotes(data[i]) : i \in 1..Len(data)}

\* extract_larger_catechism_clauses.verify_input_data: "ok", "failed", or
\* "ValueError" when min() is given the empty set.
verify_input_data(data) ==
    IF Len(data) # ExpectedQuestions THEN "failed"
    ELSE IF TotalInputFootnotes(data) = {} THEN "ValueError"
    ELSE IF Cardinality(TotalInputFootnotes(data)) # FootnoteCount THEN "failed"
    ELSE "ok"

AnswersWithoutFootnotes(qs) ==
    Cardinality({i \in 1..Len(qs) :
        Len(qs[i].clauses) = 1 /\ qs[i].clauses[1].footnote = NoFootnote})

HasDuplicates(q) == \E i, j \in 1..Len(q) : i < j /\ q[i] = q[j]

VerifyNothing(all_clauses) == TRUE
\* extract_larger_catechism_clauses.verify_clause_extraction
verify_clause_extraction(all_clauses) ==
    /\ TotalClauses(all_clauses) = FootnoteCount + AnswersWithoutFootnotes(all_clauses)
    /\ FOOTNOTE_RANGE \ Range(AllFootnotes(all_clauses)) = {}
    /\ ~HasDuplicates(AllFootnotes(all_clauses))

ClauseTextsOf(cs) == [i \in 1..Len(cs) |-> cs[i].text]

\* extract_larger_catechism_clauses.verify_text_preservation
verify_text_preservation(original_data, all_clauses) ==
    \A i \in 1..Len(original_data) :
        clean_text(original_data[i])
            = clean_text(JoinWithSpace(ClauseTextsOf(all_clauses[i].clauses)))

\* SimpleWestminsterExtractor.validate_extraction, on self.footnotes. No
\* reference of this extractor is 'reference not found' or has an empty text.
validate_extraction(footnotes) ==
    /\ Cardinality(DOMAIN footnotes) = FootnoteCount
    /\ \A n \in DOMAIN footnotes : footnotes[n] # <<>>

\* The input file of extract_larger_catechism_clauses and of
\* fix_proof_texts_v5: the answers of the questions.
InputData == [i \in 1..Len(streams) |-> AnswerOf(streams[i])]

MainStep(sc, from) == mainpc = from /\ (from = "idle" \/ mscript = sc)

\* ---- extract_larger_catechism_clauses.main

LargerVerifyInput ==
    /\ MainStep(ExtractLarger, "idle")
    /\ mscript' = ExtractLarger
    /\ LET verdict == verify_input_data(InputData)
       IN  IF verdict = "ok"
           THEN mainpc' = "extract" /\ failed' = "none"
           ELSE mainpc' = "end" /\ failed' = (IF verdict = "failed"
                                               THEN "verify_input_data" ELSE verdict)
    /\ UNCHANGED <<streams, table, questions, output>>
    /\ UNCHANGED <<rateVars, segVars, bindVars, tableVars, lookVars, pureVars>>

LargerExtract ==
    /\ MainStep(ExtractLarger, "extract")
    /\ questions' = [i \in 1..Len(streams) |->
                        Question(InputData[i], LargerSplit(InputData[i]))]
    /\ mainpc' = "verify_clauses"
    /\ UNCHANGED <<mscript, streams, table, failed, output>>
    /\ UNCHANGED <<rateVars, segVars, bindVars, tableVars, lookVars, pureVars>>

LargerVerifyClauses ==
    /\ MainStep(ExtractLarger, "verify_clauses")
    /\ IF verify_clause_extraction(questions)
       THEN mainpc' = "verify_text" /\ failed' = "none"
       ELSE mainpc' = "end" /\ failed' = "verify_clause_extraction"
    /\ UNCHANGED <<mscript, streams, table, questions, output>>
    /\ UNCHANGED <<rateVars, segVars, bindVars, tableVars, lookVars, pureVars>>

LargerVerifyText ==
    /\ MainStep(ExtractLarger, "verify_text")
    /\ IF verify_text_preservation(InputData, questions)
       THEN mainpc' = "write" /\ failed' = "none"
       ELSE mainpc' = "end" /\ failed' = "verify_text_preservation"
    /\ UNCHANGED <<mscript, streams, table, questions, output>>
    /\ UNCHANGED <<rateVars, segVars, bindVars, tableVars, lookVars, pureVars>>

\* "All verifications passed - save output"
LargerWrite ==
    /\ MainStep(ExtractLarger, "write")
    /\ output' = [output EXCEPT !.written = TRUE, !.questions = questions]
    /\ mainpc' = "end"
    /\ UNCHANGED <<mscript, streams, table, questions, failed>>
    /\ UNCHANGED <<rateVars, segVars, bindVars, tableVars, lookVars, pureVars>>

\* ---- extract_multi_page_catechism, __main__

MultiExtract ==
    /\ MainStep(MultiPage, "idle")
    /\ mscript' = MultiPage
    /\ questions' = [i \in 1..Len(streams) |->
                        Question(AnswerOf(streams[i]),
                                 extract_clauses_from_spans(MultiPage, streams[i]))]
    /\ mainpc' = "verify"
    /\ UNCHANGED <<streams, table, failed, output>>
    /\ UNCHANGED <<rateVars, segVars, bindVars, tableVars, lookVars, pureVars>>

MultiVerify ==
    /\ MainStep(MultiPage, "verify")
    /\ IF verify_extraction(questions)
       THEN mainpc' = "write" /\ failed' = "none"
       ELSE mainpc' = "end" /\ failed' = "verify_extraction"
    /\ UNCHANGED <<mscript, streams, table, questions, output>>
    /\ UNCHANGED <<rateVars, segVars, bindVars, tableVars, lookVars, pureVars>>

MultiWrite ==
    /\ MainStep(MultiPage, "write")
    /\ output' = [output EXCEPT !.written = TRUE, !.questions = questions]
    /\ mainpc' = "end"
    /\ UNCHANGED <<mscript, streams, table, questions, failed>>
    /\ UNCHANGED <<rateVars, segVars, bindVars, tableVars, lookVars, pureVars>>

\* ---- extract_shorter_catechism_simple.main; self.footnotes is the table

SimpleSave ==
    /\ MainStep(SimpleExtractor, "idle")
    /\ mscript' = SimpleExtractor
    /\ output' = [output EXCEPT !.written = TRUE, !.footnotes = table]
    /\ mainpc' = "validate"
    /\ UNCHANGED <<streams, table, questions, failed>>
    /\ UNCHANGED <<rateVars, segVars, bindVars, tableVars, lookVars, pureVars>>

SimpleValidate ==
    /\ MainStep(SimpleExtractor, "validate")
    /\ failed' = (IF validate_extraction(table) THEN "none" ELSE "validate_extraction")
    /\ mainpc' = "end"
    /\ UNCHANGED <<mscript, streams, table, questions, output>>
    /\ UNCHANGED <<rateVars, segVars, bindVars, tableVars, lookVars, pureVars>>

\* ---- WestminsterProofTextFixerV5.fix_all_proof_texts; the table is what
\* extract_footnotes_with_bold_detection returned.

RECURSIVE SortedSeq(_)
\* sorted(list(a set of numbers))
SortedSeq(S) ==
    IF S = {} THEN <<>>
    ELSE LET m == CHOOSE x \in S : \A y \in S : x <= y
         IN  <<m>> \o SortedSeq(S \ {m})

\* process_question: split, then populate_proof_texts.
V5ProcessQuestion(a, footnotes) ==
    LET cs == V5Split(a)
    IN  Question(a, [i \in 1..Len(cs) |->
                        PopulateClause(BindClause(cs[i].text, cs[i].footnote, TRUE, <<>>),
                                       footnotes)])

V5MissingFootnotes(data, footnotes) ==
    UNION {Range(extract_endnote_markers(data[i])) \ DOMAIN footnotes : i \in 1..Len(data)}

FixAllProofTexts ==
    /\ MainStep(FixV5, "idle")
    /\ mscript' = FixV5
    /\ questions' = [i \in 1..Len(streams) |-> V5ProcessQuestion(InputData[i], table)]
    /\ output' = [output EXCEPT
                    !.written = TRUE,
                    !.questions = questions',
                    !.missing_footnotes = SortedSeq(V5MissingFootnotes(InputData, table))]
    /\ mainpc' = "end"
    /\ UNCHANGED <<streams, table, failed>>
    /\ UNCHANGED <<rateVars, segVars, bindVars, tableVars, lookVars, pureVars>>

\* "Error loading input JSON": only the diagnostics are written.
FixAllInputUnreadable ==
    /\ MainStep(FixV5, "idle")
    /\ mscript' = FixV5
    /\ output' = [output EXCEPT !.written = TRUE]
    /\ failed' = "Error loading input JSON"
    /\ mainpc' = "end"
    /\ UNCHANGED <<streams, table, questions>>
    /\ UNCHANGED <<rateVars, segVars, bindVars, tableVars, lookVars, pureVars>>

InitMain ==
    /\ RateIdle
    /\ TableIdle
    /\ LookIdle
    /\ PureIdle
    /\ SegIdle
    /\ BindIdle
    /\ mscript = "none"
    /\ \/ streams \in SeqsUpTo(DocStreams, MaxQuestions) /\ table = EmptyTable
       \/ streams \in SeqsUpTo(DocStreams, MaxTableQuestions) /\ table \in Tables(ProofLists)
    /\ questions = <<>>
    /\ failed = "none"
    /\ output = NoOutput
    /\ mainpc = "idle"

NextMain ==
    \/ LargerVerifyInput
    \/ LargerExtract
    \/ LargerVerifyClauses
    \/ LargerVerifyText
    \/ LargerWrite
    \/ MultiExtract
    \/ MultiVerify
    \/ MultiWrite
    \/ SimpleSave
    \/ SimpleValidate
    \/ FixAllProofTexts
    \/ FixAllInputUnreadable

SpecMain == InitMain /\ [][NextMain]_vars

-----------------------------------------------------------------------------
(* The footnote section of a PDF: its lines, each a sequence of spans. The *)
(* section is one block of lines; sizes are in tenths of a point.          *)

FootnoteTextSize == 79      \* the footnote section is set in 7.92pt
BoldFlags == 20             \* flags of a Times-Bold span: serif and bold
BlackColor == 0

MAX_FOOTNOTE == 500         \* extract_larger_references.py
BoldFlag == 16              \* "is_bold = font_flags & 2**4"
MarkerSizeLow == 75         \* "7.5 < span['size'] < 8.5"
MarkerSizeHigh == 85
MarkerColor == 9635840      \* "span['color'] == 9635840"
MarkerFlags == 4            \* "span['flags'] == 4"
ProofMarkerSizeLimit == 100 \* "size < 10"
PageNumberSizeLimit == 95   \* "font_size >= 9.5"

\* gap: the span starts more than 2 points after the end of the span before.
TSpan(t, size, font, flags, color, gap) ==
    [text |-> t, font_size |-> size, font |-> font, flags |-> flags,
     color |-> color, gap |-> gap]

MarkerSpan(n) ==
    TSpan(StrOf(n), FootnoteTextSize, "Times-Roman", MarkerFlags, MarkerColor, FALSE)
RefSpan(t) == TSpan(t, FootnoteTextSize, "Times-Bold", BoldFlags, BlackColor, TRUE)
TextSpan(t) == TSpan(t, FootnoteTextSize, "Times-Roman", MarkerFlags, BlackColor, TRUE)
\* The page number printed on a page of the section, in the body size.
PageNumberSpan == TSpan(<<"2">>, BodySize, "Times-Roman", MarkerFlags, BlackColor, FALSE)

RomansRef == RefSpan(<<"R", "o", "m", " ", "1", ":", "2", ".">>)
PsalmRef == RefSpan(<<"P", "s", " ", "2", ":", "1", ".">>)
ScriptureSpan == TextSpan(<<"a", "b">>)
VerseSpan == TextSpan(<<"b", "a">>)
\* A reference that begins a line: no span of the line ends before it.
LeadingRef == [PsalmRef EXCEPT !.gap = FALSE]

\* The lines of the modelled sections: an entry with one proof text, an entry
\* with two, a line that continues the entry before it, a page number.
LineKinds ==
    { <<MarkerSpan(1), RomansRef, ScriptureSpan>>,
      <<MarkerSpan(2), PsalmRef, VerseSpan>>,
      <<MarkerSpan(1), RomansRef, ScriptureSpan, PsalmRef, VerseSpan>>,
      <<LeadingRef, VerseSpan>>,
      <<PageNumberSpan>> }

\* "is_bold = font_flags & 2**4"
is_bold(span) == (span.flags \div BoldFlag) % 2 = 1

\* "if text.isdigit() and 1 <= int(text) <= MAX_FOOTNOTE", text stripped
IsReferencesMarker(span) ==
    LET text == Strip(span.text)
    IN  IsDigit(text) /\ 1 <= IntOf(text) /\ IntOf(text) <= MAX_FOOTNOTE

\* The marker test of extract_shorter_catechism_clean.py: font, size, colour,
\* flags and a digit text.
IsCleanMarker(span) ==
    /\ span.font = "Times-Roman"
    /\ MarkerSizeLow < span.font_size /\ span.font_size < MarkerSizeHigh
    /\ span.color = MarkerColor
    /\ span.flags = MarkerFlags
    /\ IsDigit(Strip(span.text))

\* r'^\s*\d+\s*$'
NumberOnlyRe == ReSeq(<<ReStar(ReSpace), RePlus(ReDigit), ReStar(ReSpace), ReEnd>>)

\* "if (size < 10 and re.match(r'^\s*\d+\s*$', text.strip()))"
IsProofMarker(span) ==
    span.font_size < ProofMarkerSizeLimit /\ re_match(NumberOnlyRe, Strip(span.text))

-----------------------------------------------------------------------------
(* extract_larger_references.py: process_footnote_spans *)

\* r"^(?:[1-3] )?[A-Z][a-z]+(?: [A-Z][a-z]+)* ?\d*:?\d*(?:[-,\d: ]*)?\.$"
REFERENCE_REGEX ==
    ReSeq(<< ReOpt(ReSeq(<<ReSet({"1", "2", "3"}), ReSet({Space})>>)),
             ReSet(Upper), RePlus(ReSet(Lower)),
             ReStar(ReSeq(<<ReSet({Space}), ReSet(Upper), RePlus(ReSet(Lower))>>)),
             ReOpt(ReSet({Space})),
             ReStar(ReDigit), ReOpt(ReSet({":"})), ReStar(ReDigit),
             ReOpt(ReStar(ReSet(AllDigits \cup {"-", ",", ":", Space}))),
             ReSet({"."}), ReEnd >>)

\* Python's None where a reference is expected.
NoReference == <<"<None>">>

\* The span as extract_footnote_references keeps it: {'text', 'is_bold'}.
KeptSpan(span) == [text |-> Strip(span.text), is_bold |-> is_bold(span)]

ReferenceLeftOpen(prs, current_reference, current_text) == prs

\* "references.append({'reference': ..., 'text': ' '.join(current_text).strip()})"
SaveReference(prs, current_reference, current_text) ==
    IF current_reference # NoReference
    THEN Append(prs, ProofText(current_reference, Strip(JoinWithSpace(current_text))))
    ELSE prs

RECURSIVE ProcessLoop(_, _, _, _, _)
ProcessLoop(ss, i, current_reference, current_text, prs) ==
    IF i > Len(ss) THEN SaveReference(prs, current_reference, current_text)
    ELSE IF ss[i].is_bold /\ re_match(REFERENCE_REGEX, ss[i].text)
    THEN ProcessLoop(ss, i + 1, RStripDot(ss[i].text), <<>>,
                     SaveReference(prs, current_reference, current_text))
    ELSE ProcessLoop(ss, i + 1, current_reference,
                     IF current_reference # NoReference
                     THEN Append(current_text, ss[i].text) ELSE current_text,
                     prs)

process_footnote_spans(ss) == ProcessLoop(ss, 1, NoReference, <<>>, <<>>)

-----------------------------------------------------------------------------
(* extract_proof_texts_clean.py: parse_footnote_content *)

\* [A-Z][a-z]+(?:\s+\d+)?(?::\d+)?
BookChapterVerse ==
    ReSeq(<< ReSet(Upper), RePlus(ReSet(Lower)),
             ReOpt(ReSeq(<<RePlus(ReSpace), RePlus(ReDigit)>>)),
             ReOpt(ReSeq(<<ReSet({":"}), RePlus(ReDigit)>>)) >>)

\* The pattern inside the lookahead of the re.split:
\* \b[A-Z][a-z]+(?:\s+\d+)?(?::\d+)?(?:\s*[-\d,]+)?
\* (?:\s*[A-Z][a-z]+(?:\s+\d+)?(?::\d+)?)*\.
NewReferenceRe ==
    ReSeq(<< ReWordBoundary, BookChapterVerse,
             ReOpt(ReSeq(<<ReStar(ReSpace), RePlus(ReSet(AllDigits \cup {"-", ","}))>>)),
             ReStar(ReSeq(<<ReStar(ReSpace), BookChapterVerse>>)),
             ReSet({"."}) >>)

\* The indexes at which re.split cuts the content.
SplitPoints(content) ==
    {p \in 1..Len(content) : Ends(NewReferenceRe, content, {p}) # {}}

RECURSIVE PartsFrom(_, _, _)
\* The parts of the content from index a on, cut at the points after a.
PartsFrom(content, a, points) ==
    LET later == {p \in points : p > a}
    IN  IF later = {} THEN <<Slice(content, a, Len(content) + 1)>>
        ELSE LET b == CHOOSE p \in later : \A q \in later : p <= q
             IN  <<Slice(content, a, b)>> \o PartsFrom(content, b, points)

\* re.split(r'(?=...)', content): a cut at the first index leaves an empty
\* first part.
SplitContent(content) ==
    IF 1 \in SplitPoints(content)
    THEN <<<<>>>> \o PartsFrom(content, 1, SplitPoints(content))
    ELSE PartsFrom(content, 1, SplitPoints(content))

\* "if current_reference and current_text.strip(): proof_texts.append(...)"
SaveParsed(prs, current_reference, current_text) ==
    IF current_reference # NoReference /\ current_reference # <<>>
       /\ Strip(current_text) # <<>>
    THEN Append(prs, ProofText(Strip(current_reference), Strip(current_text)))
    ELSE prs

RECURSIVE ParseLoop(_, _, _, _, _)
ParseLoop(parts, i, current_reference, current_text, prs) ==
    IF i > Len(parts) THEN SaveParsed(prs, current_reference, current_text)
    ELSE LET part == Strip(parts[i])
         IN  IF part = <<>>
             THEN ParseLoop(parts, i + 1, current_reference, current_text, prs)
             ELSE IF re_match(BookChapterVerse, part)
             THEN ParseLoop(parts, i + 1, part, <<>>,
                            SaveParsed(prs, current_reference, current_text))
             ELSE ParseLoop(parts, i + 1, current_reference,
                            IF current_reference # NoReference /\ current_reference # <<>>
                            THEN (IF current_text # <<>>
                                  THEN current_text \o <<Space>> \o part ELSE part)
                            ELSE current_text,
                            prs)

parse_footnote_content(content) ==
    ParseLoop(SplitContent(content), 1, NoReference, <<>>, <<>>)

-----------------------------------------------------------------------------
(* extract_shorter_catechism_clean.py: steps 2 and 3 *)

RECURSIVE MarkersOf(_)
\* The numbers of the marker spans of a span sequence, in order.
MarkersOf(ss) ==
    IF ss = <<>> THEN <<>>
    ELSE IF IsCleanMarker(ss[1])
    THEN <<IntOf(Strip(ss[1].text))>> \o MarkersOf(Tail(ss))
    ELSE MarkersOf(Tail(ss))

RECURSIVE SequenceBreaks(_, _)
\* "WARNING: Footnote sequence break: got n, expected last + 1"
SequenceBreaks(numbers, last) ==
    IF numbers = <<>> THEN <<>>
    ELSE (IF numbers[1] # last + 1
          THEN <<[got |-> numbers[1], expected |-> last + 1]>> ELSE <<>>)
         \o SequenceBreaks(Tail(numbers), numbers[1])

\* step2_find_all_footnotes_perfect: the footnotes found (their "text" is read
\* by nothing that follows), or none and the error printed.
step2_find_all_footnotes_perfect(lines) ==
    LET numbers == MarkersOf(Concat(lines))
        missing == FOOTNOTE_RANGE \ {numbers[i] : i \in 1..Len(numbers)}
        warnings == SequenceBreaks(numbers, 0)
    IN  IF Len(numbers) # FootnoteCount
        THEN [footnotes |-> <<>>, warnings |-> warnings,
              error |-> [kind |-> "count", found |-> Len(numbers), numbers |-> {}]]
        ELSE IF missing # {}
        THEN [footnotes |-> <<>>, warnings |-> warnings,
              error |-> [kind |-> "missing", found |-> Len(numbers), numbers |-> missing]]
        ELSE [footnotes |-> numbers, warnings |-> warnings, error |-> NoError]

\* The running state of step 3 within one footnote.
Step3Start ==
    [current_ref |-> <<>>, current_scripture |-> <<>>, in_bold |-> FALSE,
     bold_references |-> <<>>]

\* "if in_bold: current_ref += ' ' else: current_scripture += ' '"
AddSpace(st) ==
    IF st.in_bold THEN [st EXCEPT !.current_ref = @ \o <<Space>>]
    ELSE [st EXCEPT !.current_scripture = @ \o <<Space>>]

\* "ref = current_ref.rstrip('.'); if ref: bold_references.append(...)"
SaveBold(st) ==
    IF RStripDot(st.current_ref) # <<>>
    THEN Append(st.bold_references,
                ProofText(RStripDot(st.current_ref), Strip(st.current_scripture)))
    ELSE st.bold_references

\* One span after the marker.
Step3Span(st0, span) ==
    LET st == IF span.gap THEN AddSpace(st0) ELSE st0
    IN  IF span.font = "Times-Bold"
        THEN IF st.current_ref # <<>> /\ ~st.in_bold
             THEN [current_ref |-> span.text, current_scripture |-> <<>>,
                   in_bold |-> TRUE, bold_references |-> SaveBold(st)]
             ELSE [st EXCEPT !.current_ref = @ \o span.text, !.in_bold = TRUE]
        ELSE [st EXCEPT !.in_bold = FALSE, !.current_scripture = @ \o span.text]

RECURSIVE Step3RestOfLine(_, _, _)
\* "Get text from remaining spans in this line": no span stops it.
Step3RestOfLine(st, line, i) ==
    IF i > Len(line) THEN st
    ELSE Step3RestOfLine(Step3Span(st, line[i]), line, i + 1)

RECURSIVE Step3NextLine(_, _, _)
\* The spans of a later line up to the first marker; stopped tells whether a
\* marker was met.
Step3NextLine(st, line, i) ==
    IF i > Len(line) THEN [state |-> st, stopped |-> FALSE]
    ELSE IF IsCleanMarker(line[i]) THEN [state |-> st, stopped |-> TRUE]
    ELSE Step3NextLine(Step3Span(st, line[i]), line, i + 1)

RECURSIVE Step3Lines(_, _, _)
\* "Get text from subsequent lines in this block", each after a space.
Step3Lines(st, lines, k) ==
    IF k > Len(lines) THEN st
    ELSE LET r == Step3NextLine(AddSpace(st), lines[k], 1)
         IN  IF r.stopped THEN r.state ELSE Step3Lines(r.state, lines, k + 1)

\* The first line that has a marker of footnote n, and the marker's index;
\* line 0 when there is none.
FindMarker(lines, n) ==
    LET IsAt(k, i) == IsCleanMarker(lines[k][i]) /\ IntOf(Strip(lines[k][i].text)) = n
        Has(k) == \E i \in 1..Len(lines[k]) : IsAt(k, i)
    IN  IF \E k \in 1..Len(lines) : Has(k)
        THEN LET k == CHOOSE k \in 1..Len(lines) : Has(k) /\ \A j \in 1..(k - 1) : ~Has(j)
                 i == CHOOSE i \in 1..Len(lines[k]) :
                         IsAt(k, i) /\ \A j \in 1..(i - 1) : ~IsAt(k, j)
             IN  [line |-> k, index |-> i]
        ELSE [line |-> 0, index |-> 0]

\* The references step 3 finds for footnote n.
ReferencesOfFootnote(lines, n) ==
    LET at == FindMarker(lines, n)
    IN  IF at.line = 0 THEN <<>>
        ELSE LET st == Step3Lines(Step3RestOfLine(Step3Start, lines[at.line], at.index + 1),
                                  lines, at.line + 1)
             IN  IF st.current_ref # <<>> THEN SaveBold(st) ELSE st.bold_references

\* main: the references grouped by footnote; a footnote without a reference
\* gets no key.
CleanOutput(lines, found) ==
    LET keys == {found[i] : i \in 1..Len(found)}
        with == {n \in keys : ReferencesOfFootnote(lines, n) # <<>>}
    IN  [n \in with |-> ReferencesOfFootnote(lines, n)]

-----------------------------------------------------------------------------
(* The runs that build a footnote table *)

LargerReferences == "extract_larger_references"
ShorterClean == "extract_shorter_catechism_clean"
ProofTextsClean == "extract_proof_texts_clean"
TableScripts == {LargerReferences, ShorterClean, ProofTextsClean}

\* The spans of the section, in reading order.
tspans == Concat(tlines)

TableStart(sc) ==
    /\ tpc = "idle"
    /\ tscript' = sc
    /\ tpc' = IF sc = ShorterClean THEN "step2" ELSE "loop"
    /\ UNCHANGED <<tlines, tpos, current_footnote_num, current_footnote_spans, refs,
                   tfootnotes, tresult>>
    /\ UNCHANGED <<rateVars, segVars, mainVars, bindVars, lookVars, pureVars>>

\* The entry of the footnote that ends, as the script computes it.
EntryOf(sc, kept) ==
    IF sc = LargerReferences THEN process_footnote_spans(kept)
    ELSE parse_footnote_content(Strip(JoinWithSpace(kept)))

\* "refs[str(current_footnote_num)] = ..." / "footnotes[current_footnote_num] = ..."
SaveFootnote(tbl, sc, n, kept) ==
    IF n = NoFootnote THEN tbl
    ELSE [k \in DOMAIN tbl \cup {n} |-> IF k = n THEN EntryOf(sc, kept) ELSE tbl[k]]

IsMarkerFor(sc, span) ==
    IF sc = LargerReferences THEN IsReferencesMarker(span) ELSE IsProofMarker(span)

\* What the loop keeps of a span that is not a marker.
KeptFor(sc, span) == IF sc = LargerReferences THEN KeptSpan(span) ELSE span.text

\* A span that is a footnote number: the footnote before it is saved and a
\* new one starts.
TableMarkerSpan ==
    /\ tpc = "loop"
    /\ tpos <= Len(tspans)
    /\ IsMarkerFor(tscript, tspans[tpos])
    /\ refs' = SaveFootnote(refs, tscript, current_footnote_num, current_footnote_spans)
    /\ current_footnote_num' = IntOf(Strip(tspans[tpos].text))
    /\ current_footnote_spans' = <<>>
    /\ tpos' = tpos + 1
    /\ UNCHANGED <<tscript, tlines, tfootnotes, tresult, tpc>>
    /\ UNCHANGED <<rateVars, segVars, mainVars, bindVars, lookVars, pureVars>>

\* Any other span: kept when a footnote is open.
TableOtherSpan ==
    /\ tpc = "loop"
    /\ tpos <= Len(tspans)
    /\ ~IsMarkerFor(tscript, tspans[tpos])
    /\ current_footnote_spans' =
           IF current_footnote_num # NoFootnote
           THEN Append(current_footnote_spans, KeptFor(tscript, tspans[tpos]))
           ELSE current_footnote_spans
    /\ tpos' = tpos + 1
    /\ UNCHANGED <<tscript, tlines, current_footnote_num, refs, tfootnotes, tresult, tpc>>
    /\ UNCHANGED <<rateVars, segVars, mainVars, bindVars, lookVars, pureVars>>

\* extract_larger_references.py after the loop: the last footnote is saved,
\* then "for i in range(1, max(refs.keys(), default=0) + 1)" adds 1 to the
\* largest key, a string, unless there is no key; __main__ writes what is
\* returned.
ReferencesFinish ==
    /\ tpc = "loop"
    /\ tscript = LargerReferences
    /\ tpos > Len(tspans)
    /\ LET last == SaveFootnote(refs, tscript, current_footnote_num, current_footnote_spans)
       IN  /\ refs' = last
           /\ tresult' = IF DOMAIN last = {}
                         THEN [NoResult EXCEPT !.status = "written"]
                         ELSE [NoResult EXCEPT !.status = "TypeError"]
    /\ tpc' = "done"
    /\ UNCHANGED <<tscript, tlines, tpos, current_footnote_num, current_footnote_spans,
                   tfootnotes>>
    /\ UNCHANGED <<rateVars, segVars, mainVars, bindVars, lookVars, pureVars>>

\* extract_footnotes_from_pdf after the loop: the last footnote is saved and
\* the table returned.
ProofTextsFinish ==
    /\ tpc = "loop"
    /\ tscript = ProofTextsClean
    /\ tpos > Len(tspans)
    /\ LET last == SaveFootnote(refs, tscript, current_footnote_num, current_footnote_spans)
       IN  /\ refs' = last
           /\ tresult' = [NoResult EXCEPT !.status = "returned", !.table = last]
    /\ tpc' = "done"
    /\ UNCHANGED <<tscript, tlines, tpos, current_footnote_num, current_footnote_spans,
                   tfootnotes>>
    /\ UNCHANGED <<rateVars, segVars, mainVars, bindVars, lookVars, pureVars>>

\* main of extract_shorter_catechism_clean.py, step 2: "if not footnotes: return"
CleanStep2 ==
    /\ tpc = "step2"
    /\ LET r == step2_find_all_footnotes_perfect(tlines)
       IN  /\ tfootnotes' = r.footnotes
           /\ tresult' = [NoResult EXCEPT !.error = r.error, !.warnings = r.warnings,
                                          !.status = IF r.footnotes = <<>>
                                                     THEN "failed" ELSE "none"]
           /\ tpc' = IF r.footnotes = <<>> THEN "done" ELSE "step3"
    /\ UNCHANGED <<tscript, tlines, tpos, current_footnote_num, current_footnote_spans, refs>>
    /\ UNCHANGED <<rateVars, segVars, mainVars, bindVars, lookVars, pureVars>>

\* Step 3 and the writing of the references file.
CleanStep3 ==
    /\ tpc = "step3"
    /\ refs' = CleanOutput(tlines, tfootnotes)
    /\ tresult' = [tresult EXCEPT !.status = "written",
                                  !.table = CleanOutput(tlines, tfootnotes)]
    /\ tpc' = "done"
    /\ UNCHANGED <<tscript, tlines, tpos, current_footnote_num, current_footnote_spans,
                   tfootnotes>>
    /\ UNCHANGED <<rateVars, segVars, mainVars, bindVars, lookVars, pureVars>>

InitTable ==
    /\ RateIdle
    /\ LookIdle
    /\ PureIdle
    /\ SegIdle
    /\ MainIdle
    /\ BindIdle
    /\ tscript = "none"
    /\ tlines \in SeqsUpTo(LineKinds, MaxLines)
    /\ tpos = 1
    /\ current_footnote_num = NoFootnote
    /\ current_footnote_spans = <<>>
    /\ refs = EmptyTable
    /\ tfootnotes = <<>>
    /\ tresult = NoResult
    /\ tpc = "idle"

NextTable ==
    \/ \E sc \in TableScripts : TableStart(sc)
    \/ TableMarkerSpan
    \/ TableOtherSpan
    \/ ReferencesFinish
    \/ ProofTextsFinish
    \/ CleanStep2
    \/ CleanStep3

SpecTable == InitTable /\ [][NextTable]_vars

-----------------------------------------------------------------------------
(* Scripture citations and their lookup. A citation is a text; the pieces   *)
(* of str and re the lookups use are computed on its characters.            *)

Capitals == <<"A", "B", "C", "D", "E", "F", "G", "H", "I", "J", "K", "L", "M",
              "N", "O", "P", "Q", "R", "S", "T", "U", "V", "W", "X", "Y", "Z">>
Smalls == <<"a", "b", "c", "d", "e", "f", "g", "h", "i", "j", "k", "l", "m",
            "n", "o", "p", "q", "r", "s", "t", "u", "v", "w", "x", "y", "z">>

\* str.lower()
LowerChar(c) == IF c \in Upper THEN Smalls[CHOOSE i \in 1..26 : Capitals[i] = c] ELSE c
lower(t) == [i \in 1..Len(t) |-> LowerChar(t[i])]

RECURSIVE ReplaceFrom(_, _, _, _)
ReplaceFrom(t, old, new, i) ==
    IF i > Len(t) THEN <<>>
    ELSE IF OccursAt(t, old, i) THEN new \o ReplaceFrom(t, old, new, i + Len(old))
    ELSE <<t[i]>> \o ReplaceFrom(t, old, new, i + 1)

\* str.replace(old, new), old not empty
Replace(t, old, new) == ReplaceFrom(t, old, new, 1)

RECURSIVE SplitFrom(_, _, _, _)
SplitFrom(t, sep, i, part) ==
    IF i > Len(t) THEN <<part>>
    ELSE IF t[i] = sep THEN <<part>> \o SplitFrom(t, sep, i + 1, <<>>)
    ELSE SplitFrom(t, sep, i + 1, Append(part, t[i]))

\* str.split(sep) for a separator of one character
Split(t, sep) == SplitFrom(t, sep, 1, <<>>)

\* "sub in t", t.startswith(sub)
Contains(t, sub) == \E i \in 1..(Len(t) + 1) : OccursAt(t, sub, i)
StartsWith(t, sub) == OccursAt(t, sub, 1)

\* The end of the longest match of re that starts at p, 0 when there is none.
MaxEnd(re, t, p) ==
    CHOOSE m \in {IF es = {} THEN 0 ELSE CHOOSE e \in es : \A f \in es : f <= e :
                     es \in {Ends(re, t, {p})}} : TRUE

\* None, as the value of a lookup.
NoVerse == <<"<None>">>

\* "x if x else y" for a text or None
HasText(x) == x # NoVerse /\ x # <<>>

-----------------------------------------------------------------------------
(* fetch_scriptures.py: ScriptureFetcher *)

\* self.book_names: the number of a book name, 0 for a name it lacks.
book_names(name) ==
    CASE name \in {<<"g", "e", "n">>, <<"g", "e", "n", "e", "s", "i", "s">>} -> 1
      [] name \in {<<"e", "x", "o">>, <<"e", "x", "o", "d">>, <<"e", "x", "o", "d", "u", "s">>} -> 2
      [] name \in {<<"l", "e", "v">>, <<"l", "e", "v", "i", "t", "i", "c", "u", "s">>} -> 3
      [] name \in {<<"n", "u", "m">>, <<"n", "u", "m", "b", "e", "r", "s">>} -> 4
      [] name \in {<<"d", "e", "u">>, <<"d", "e", "u", "t">>, <<"d", "e", "u", "t", "e", "r", "o", "n", "o", "m", "y">>} -> 5
      [] name \in {<<"j", "o", "s">>, <<"j", "o", "s", "h">>, <<"j", "o", "s", "h", "u", "a">>} -> 6
      [] name \in {<<"j", "u", "d", "g">>, <<"j", "u", "d", "g", "e", "s">>} -> 7
      [] name \in {<<"r", "u", "t">>, <<"r", "u", "t", "h">>} -> 8
      [] name \in {<<"1", "s", "a">>, <<"1", "s", "a", "m">>, <<"1", "s", "a", "m", "u", "e", "l">>, <<"i", " ", "s", "a", "m", "u", "e", "l">>, <<"1", " ", "s", "a", "m", "u", "e", "l">>} -> 9
      [] name \in {<<"2", "s", "a">>, <<"2", "s", "a", "m">>, <<"2", "s", "a", "m", "u", "e", "l">>, <<"i", "i", " ", "s", "a", "m", "u", "e", "l">>, <<"2", " ", "s", "a", "m", "u", "e", "l">>} -> 10
      [] name \in {<<"1", "k", "i">>, <<"1", "k", "g", "s">>, <<"1", "k", "i", "n", "g", "s">>, <<"i", " ", "k", "i", "n", "g", "s">>, <<"1", " ", "k", "i", "n", "g", "s">>} -> 11
      [] name \in {<<"2", "k", "i">>, <<"2", "k", "g", "s">>, <<"2", "k", "i", "n", "g", "s">>, <<"i", "i", " ", "k", "i", "n", "g", "s">>, <<"2", " ", "k", "i", "n", "g", "s">>} -> 12
      [] name \in {<<"1", "c", "h">>, <<"1", "c", "h", "r">>, <<"1", "c", "h", "r", "o", "n">>, <<"1", "c", "h", "r", "o", "n", "i", "c", "l", "e", "s">>, <<"i", " ", "c", "h", "r", "o", "n", "i", "c", "l", "e", "s">>,
                   <<"1", " ", "c", "h", "r", "o", "n", "i", "c", "l", "e", "s">>} -> 13
      [] name \in {<<"2", "c", "h">>, <<"2", "c", "h", "r">>, <<"2", "c", "h", "r", "o", "n">>, <<"2", "c", "h", "r", "o", "n", "i", "c", "l", "e", "s">>, <<"i", "i", " ", "c", "h", "r", "o", "n", "i", "c", "l", "e", "s">>,
                   <<"2", " ", "c", "h", "r", "o", "n", "i", "c", "l", "e", "s">>} -> 14
      [] name \in {<<"e", "z", "r">>, <<"e", "z", "r", "a">>} -> 15
      [] name \in {<<"n", "e", "h">>, <<"n", "e", "h", "e", "m", "i", "a", "h">>} -> 16
      [] name \in {<<"e", "s", "t">>, <<"e", "s", "t", "h">>, <<"e", "s", "t", "h", "e", "r">>} -> 17
      [] name \in {<<"j", "o", "b">>} -> 18
      [] name \in {<<"p", "s", "a">>, <<"p", "s">>, <<"p", "s", "a", "l", "m">>, <<"p", "s", "a", "l", "m", "s">>} -> 19
      [] name \in {<<"p", "r", "o">>, <<"p", "r", "o", "v">>, <<"p", "r", "o", "v", "e", "r", "b", "s">>} -> 20
      [] name \in {<<"e", "c", "c">>, <<"e", "c", "c", "l">>, <<"e", "c", "c", "l", "e", "s", "i", "a", "s", "t", "e", "s">>} -> 21
      [] name \in {<<"s", "o", "n">>, <<"s", "o", "n", "g">>, <<"s", "o", "n", "g", "s">>, <<"s", "o", "n", "g", "o", "f", "s", "o", "l", "o", "m", "o", "n">>, <<"s", "o", "n", "g", " ", "o", "f", " ", "s", "o", "l", "o", "m", "o", "n">>} -> 22
      [] name \in {<<"i", "s", "a">>, <<"i", "s", "a", "i", "a", "h">>} -> 23
      [] name \in {<<"j", "e", "r">>, <<"j", "e", "r", "e", "m", "i", "a", "h">>} -> 24
      [] name \in {<<"l", "a", "m">>, <<"l", "a", "m", "e", "n", "t", "a", "t", "i", "o", "n", "s">>} -> 25
      [] name \in {<<"e", "z", "e">>, <<"e", "z", "e", "k">>, <<"e", "z", "e", "k", "i", "e", "l">>} -> 26
      [] name \in {<<"d", "a", "n">>, <<"d", "a", "n", "i", "e", "l">>} -> 27
      [] name \in {<<"h", "o", "s">>, <<"h", "o", "s", "e", "a">>} -> 28
      [] name \in {<<"j", "o", "e">>, <<"j", "o", "e", "l">>} -> 29
      [] name \in {<<"a", "m", "o">>, <<"a", "m", "o", "s">>} -> 30
      [] name \in {<<"o", "b", "a">>, <<"o", "b", "a", "d">>, <<"o", "b", "a", "d", "i", "a", "h">>} -> 31
      [] name \in {<<"j", "o", "n">>, <<"j", "o", "n", "a", "h">>} -> 32
      [] name \in {<<"m", "i", "c">>, <<"m", "i", "c", "a", "h">>} -> 33
      [] name \in {<<"n", "a", "h">>, <<"n", "a", "h", "u", "m">>} -> 34
      [] name \in {<<"h", "a", "b">>, <<"h", "a", "b", "a", "k", "k", "u", "k">>} -> 35
      [] name \in {<<"z", "e", "p">>, <<"z", "e", "p", "h">>, <<"z", "e", "p", "h", "a", "n", "i", "a", "h">>} -> 36
      [] name \in {<<"h", "a", "g">>, <<"h", "a", "g", "g", "a", "i">>} -> 37
      [] name \in {<<"z", "a", "c">>, <<"z", "e", "c", "h">>, <<"z", "e", "c", "h", "a", "r", "i", "a", "h">>} -> 38
      [] name \in {<<"m", "a", "l">>, <<"m", "a", "l", "a", "c", "h", "i">>} -> 39
      [] name \in {<<"m", "a", "t">>, <<"m", "a", "t", "t">>, <<"m", "a", "t", "t", "h", "e", "w">>} -> 40
      [] name \in {<<"m", "a", "r">>, <<"m", "a", "r", "k">>} -> 41
      [] name \in {<<"l", "u", "k">>, <<"l", "u", "k", "e">>} -> 42
      [] name \in {<<"j", "o", "h">>, <<"j", "o", "h", "n">>} -> 43
      [] name \in {<<"a", "c", "t">>, <<"a", "c", "t", "s">>} -> 44
      [] name \in {<<"r", "o", "m">>, <<"r", "o", "m", "a", "n", "s">>} -> 45
      [] name \in {<<"1", "c", "o">>, <<"1", "c", "o", "r">>, <<"1", "c", "o", "r", "i", "n", "t", "h", "i", "a", "n", "s">>, <<"i", " ", "c", "o", "r", "i", "n", "t", "h", "i", "a", "n", "s">>,
                   <<"1", " ", "c", "o", "r", "i", "n", "t", "h", "i", "a", "n", "s">>} -> 46
      [] name \in {<<"2", "c", "o">>, <<"2", "c", "o", "r">>, <<"2", "c", "o", "r", "i", "n", "t", "h", "i", "a", "n", "s">>, <<"i", "i", " ", "c", "o", "r", "i", "n", "t", "h", "i", "a", "n", "s">>,
                   <<"2", " ", "c", "o", "r", "i", "n", "t", "h", "i", "a", "n", "s">>} -> 47
      [] name \in {<<"g", "a", "l">>, <<"g", "a", "l", "a", "t", "i", "a", "n", "s">>} -> 48
      [] name \in {<<"e", "p", "h">>, <<"e", "p", "h", "e", "s", "i", "a", "n", "s">>} -> 49
      [] name \in {<<"p", "h", "i">>, <<"p", "h", "i", "l">>, <<"p", "h", "i", "l", "i", "p", "p", "i", "a", "n", "s">>} -> 50
      [] name \in {<<"c", "o", "l">>, <<"c", "o", "l", "o", "s", "s", "i", "a", "n", "s">>} -> 51
      [] name \in {<<"1", "t", "h">>, <<"1", "t", "h", "e", "s", "s">>, <<"1", "t", "h", "e", "s", "s", "a", "l", "o", "n", "i", "a", "n", "s">>, <<"i", " ", "t", "h", "e", "s", "s", "a", "l", "o", "n", "i", "a", "n", "s">>,
                   <<"1", " ", "t", "h", "e", "s", "s", "a", "l", "o", "n", "i", "a", "n", "s">>} -> 52
      [] name \in {<<"2", "t", "h">>, <<"2", "t", "h", "e", "s", "s">>, <<"2", "t", "h", "e", "s", "s", "a", "l", "o", "n", "i", "a", "n", "s">>, <<"i", "i", " ", "t", "h", "e", "s", "s", "a", "l", "o", "n", "i", "a", "n", "s">>,
                   <<"2", " ", "t", "h", "e", "s", "s", "a", "l", "o", "n", "i", "a", "n", "s">>} -> 53
      [] name \in {<<"1", "t", "i">>, <<"1", "t", "i", "m">>, <<"1", "t", "i", "m", "o", "t", "h", "y">>, <<"i", " ", "t", "i", "m", "o", "t", "h", "y">>, <<"1", " ", "t", "i", "m", "o", "t", "h", "y">>} -> 54
      [] name \in {<<"2", "t", "i">>, <<"2", "t", "i", "m">>, <<"2", "t", "i", "m", "o", "t", "h", "y">>, <<"i", "i", " ", "t", "i", "m", "o", "t", "h", "y">>, <<"2", " ", "t", "i", "m", "o", "t", "h", "y">>} -> 55
      [] name \in {<<"t", "i", "t">>, <<"t", "i", "t", "u", "s">>} -> 56
      [] name \in {<<"p", "h", "m">>, <<"p", "h", "i", "l", "e", "m">>, <<"p", "h", "i", "l", "e", "m", "o", "n">>} -> 57
      [] name \in {<<"h", "e", "b">>, <<"h", "e", "b", "r", "e", "w", "s">>} -> 58
      [] name \in {<<"j", "a", "m">>, <<"j", "a", "s">>, <<"j", "a", "m", "e", "s">>} -> 59
      [] name \in {<<"1", "p", "e">>, <<"1", "p", "e", "t">>, <<"1", "p", "e", "t", "e", "r">>, <<"i", " ", "p", "e", "t", "e", "r">>, <<"1", " ", "p", "e", "t", "e", "r">>} -> 60
      [] name \in {<<"2", "p", "e">>, <<"2", "p", "e", "t">>, <<"2", "p", "e", "t", "e", "r">>, <<"i", "i", " ", "p", "e", "t", "e", "r">>, <<"2", " ", "p", "e", "t", "e", "r">>} -> 61
      [] name \in {<<"1", "j", "o">>, <<"1", "j", "o", "h", "n">>, <<"i", " ", "j", "o", "h", "n">>, <<"1", " ", "j", "o", "h", "n">>} -> 62
      [] name \in {<<"2", "j", "o">>, <<"2", "j", "o", "h", "n">>, <<"i", "i", " ", "j", "o", "h", "n">>, <<"2", " ", "j", "o", "h", "n">>} -> 63
      [] name \in {<<"3", "j", "o">>, <<"3", "j", "o", "h", "n">>, <<"i", "i", "i", " ", "j", "o", "h", "n">>, <<"3", " ", "j", "o", "h", "n">>} -> 64
      [] name \in {<<"j", "u", "d">>, <<"j", "u", "d", "e">>} -> 65
      [] name \in {<<"r", "e", "v">>, <<"r", "e", "v", "e", "l", "a", "t", "i", "o", "n">>} -> 66
      [] OTHER -> 0

\* self.verses: the verses of a chapter of the KJV file, in order.
KjvChapter(book_num, chapter) ==
    CASE book_num = 45 /\ chapter = 1 -> <<<<"a">>, <<"b">>>>
      [] book_num = 19 /\ chapter = 2 -> <<<<"b", "a">>>>
      [] OTHER -> <<>>

\* ScriptureFetcher.get_verse_text(book_num, chapter, verse)
get_verse_text(book_num, chapter, verse) ==
    LET vs == KjvChapter(book_num, chapter)
    IN  IF verse \in 1..Len(vs) THEN vs[verse] ELSE NoVerse

\* [1-3]?[A-Za-z]+ and [1-3]?[a-z]+
ReBook == ReSeq(<<ReOpt(ReSet({"1", "2", "3"})), RePlus(ReSet(Upper \cup Lower))>>)
ReBookLower == ReSeq(<<ReOpt(ReSet({"1", "2", "3"})), RePlus(ReSet(Lower))>>)
ReNumber == RePlus(ReDigit)
ReSpaces == ReStar(ReSpace)
ReLit(c) == ReSet({c})

\* r'([1-3]?[A-Za-z]+)\.(\d+)\.(\d+)'
ReDotted == ReSeq(<<ReBook, ReLit("."), ReNumber, ReLit("."), ReNumber>>)

RECURSIVE DotToColonFrom(_, _)
DotToColonFrom(t, i) ==
    IF i > Len(t) THEN <<>>
    ELSE IF Ends(ReDotted, t, {i}) = {} THEN <<t[i]>> \o DotToColonFrom(t, i + 1)
    ELSE LET b == MaxEnd(ReBook, t, i)
             c == MaxEnd(ReNumber, t, b + 1)
             v == MaxEnd(ReNumber, t, c + 1)
         IN  Slice(t, i, b) \o <<Space>> \o Slice(t, b + 1, c) \o <<":">>
                 \o Slice(t, c + 1, v) \o DotToColonFrom(t, v)

\* re.sub(r'([1-3]?[A-Za-z]+)\.(\d+)\.(\d+)', r'\1 \2:\3', reference)
DotToColon(t) == DotToColonFrom(t, 1)

\* "ref.replace('.', '').replace('  ', ' ').strip().lower()"
NormalizeRef(reference) ==
    lower(Strip(Replace(Replace(DotToColon(reference), <<".">>, <<>>),
                        <<Space, Space>>, <<Space>>)))

NotParsed == [kind |-> "None", nums |-> <<>>, items |-> <<>>]
Parsed(kind, nums) == [kind |-> kind, nums |-> nums, items |-> <<>>]

\* r'([1-3]?[a-z]+)\s*(\d+):(\d+)'
ReVerse == ReSeq(<<ReBookLower, ReSpaces, ReNumber, ReLit(":"), ReNumber>>)
\* r'([1-3]?[a-z]+)\s*(\d+)-(?:[1-3]?[a-z]+)?\s*(\d+)$'
ReChapterRange ==
    ReSeq(<<ReBookLower, ReSpaces, ReNumber, ReLit("-"), ReOpt(ReBookLower), ReSpaces,
            ReNumber, ReEnd>>)
\* r'([1-3]?[a-z]+)\s*(\d+)$'
ReChapterOnly == ReSeq(<<ReBookLower, ReSpaces, ReNumber, ReEnd>>)
\* r'(\d+):(\d+)'
ReChapterVerse == ReSeq(<<ReNumber, ReLit(":"), ReNumber>>)

\* The groups of a match of r'([1-3]?[a-z]+)\s*(\d+)...' at the start of t.
BookOf(t) == Slice(t, 1, MaxEnd(ReBookLower, t, 1))
ChapterStart(t) == MaxEnd(ReSpaces, t, MaxEnd(ReBookLower, t, 1))
ChapterOf(t) == IntOf(Slice(t, ChapterStart(t), MaxEnd(ReNumber, t, ChapterStart(t))))
VerseStart(t) == MaxEnd(ReNumber, t, ChapterStart(t)) + 1
VerseOf(t) == IntOf(Slice(t, VerseStart(t), MaxEnd(ReNumber, t, VerseStart(t))))

RECURSIVE TrailingNumberStart(_, _)
TrailingNumberStart(t, i) ==
    IF i > 1 /\ t[i - 1] \in AllDigits THEN TrailingNumberStart(t, i - 1) ELSE i
\* The last group of a pattern that ends with (\d+)$
TrailingNumber(t) == IntOf(Slice(t, TrailingNumberStart(t, Len(t) + 1), Len(t) + 1))

\* "Handle single verse references like 'ps 19:1'"
SingleVerse(ref) ==
    IF re_match(ReVerse, ref) /\ book_names(BookOf(ref)) # 0
    THEN Parsed("single_verse",
                <<book_names(BookOf(ref)), ChapterOf(ref), VerseOf(ref), VerseOf(ref)>>)
    ELSE NotParsed

\* "Handle range references like 'rom 1:19-20'": the value returned, or
\* "fall" when the branch returns nothing and the single-verse test follows.
Fall == [kind |-> "fall", nums |-> <<>>, items |-> <<>>]

RangeReference(ref) ==
    LET parts == Split(ref, "-")
        start_ref == Strip(parts[1])
        end_part == Strip(parts[2])
        book_num == book_names(BookOf(start_ref))
        chapter == ChapterOf(start_ref)
        start_verse == VerseOf(start_ref)
    IN  IF Len(parts) # 2 \/ ~re_match(ReVerse, start_ref) THEN Fall
        ELSE IF Contains(end_part, <<":">>)
        THEN IF re_match(ReVerse, end_part)
             THEN IF BookOf(start_ref) # BookOf(end_part) THEN NotParsed
                  ELSE IF book_num = 0 THEN Fall
                  ELSE IF chapter = ChapterOf(end_part)
                  THEN Parsed("verse_range",
                              <<book_num, chapter, start_verse, VerseOf(end_part)>>)
                  ELSE Parsed("cross_chapter_range",
                              <<book_num, chapter, start_verse, ChapterOf(end_part),
                                VerseOf(end_part)>>)
             ELSE IF re_match(ReChapterVerse, end_part)
             THEN LET colon == MaxEnd(ReNumber, end_part, 1)
                      end_chapter == IntOf(Slice(end_part, 1, colon))
                      end_verse == IntOf(Slice(end_part, colon + 1,
                                               MaxEnd(ReNumber, end_part, colon + 1)))
                  IN  IF chapter # end_chapter
                      THEN IF book_num # 0
                           THEN Parsed("cross_chapter_range",
                                       <<book_num, chapter, start_verse, end_chapter,
                                         end_verse>>)
                           ELSE NotParsed
                      ELSE IF book_num # 0
                           THEN Parsed("verse_range",
                                       <<book_num, chapter, start_verse, end_verse>>)
                           ELSE Fall
             ELSE NotParsed
        ELSE \* int(end_part) raises ValueError unless end_part is a number
             IF ~IsDigit(end_part) THEN NotParsed
             ELSE IF book_num # 0
             THEN Parsed("verse_range", <<book_num, chapter, start_verse, IntOf(end_part)>>)
             ELSE Fall

\* parse_reference on a normalised reference that has no comma
ParsePlain(ref) ==
    IF re_match(ReChapterRange, ref) /\ book_names(BookOf(ref)) # 0
    THEN Parsed("chapter_range",
                <<book_names(BookOf(ref)), ChapterOf(ref), 1, TrailingNumber(ref)>>)
    ELSE IF re_match(ReChapterOnly, ref) /\ book_names(BookOf(ref)) # 0
    THEN Parsed("chapter_only", <<book_names(BookOf(ref)), ChapterOf(ref), 1, ChapterOf(ref)>>)
    ELSE IF Contains(ref, <<"-">>) /\ RangeReference(ref) # Fall THEN RangeReference(ref)
    ELSE SingleVerse(ref)

\* parse_reference on one part of a reference: the part is normalised once,
\* then parsed.
ParseOne(part) == CHOOSE parsed \in {ParsePlain(ref) : ref \in {NormalizeRef(part)}} : TRUE

\* "if ',' in ref: ... return [self.parse_reference(r) for r in refs]"
ParseNormalized(ref) ==
    LET stripped == [i \in 1..Len(Split(ref, ",")) |-> Strip(Split(ref, ",")[i])]
        kept == SelectSeq(stripped, LAMBDA r : r # <<>>)
    IN  IF Contains(ref, <<",">>)
        THEN [kind |-> "list", nums |-> <<>>,
              items |-> [i \in 1..Len(kept) |-> ParseOne(kept[i])]]
        ELSE ParsePlain(ref)

\* ScriptureFetcher.parse_reference: the reference is normalised once, then
\* parsed.
parse_reference(reference) ==
    CHOOSE parsed \in {ParseNormalized(ref) : ref \in {NormalizeRef(reference)}} : TRUE

\* "[{verse_num}] {text}"
Numbered(n, text) == <<"[">> \o StrOf(n) \o <<"]", Space>> \o text

VerseLoopEnd == 200     \* "for verse_num in range(1, 200)"

RECURSIVE RangeVerses(_, _, _, _)
\* The verses of a chapter from a verse to another that the file has.
RangeVerses(book_num, chapter, v, end_verse) ==
    IF v > end_verse THEN <<>>
    ELSE (IF get_verse_text(book_num, chapter, v) # NoVerse
          THEN <<Numbered(v, get_verse_text(book_num, chapter, v))>> ELSE <<>>)
         \o RangeVerses(book_num, chapter, v + 1, end_verse)

RECURSIVE ChapterVerses(_, _, _, _)
\* The verses of a chapter up to the first one the file lacks; long is
\* whether the chapter goes into the label.
ChapterVerses(book_num, chapter, v, long) ==
    IF v >= VerseLoopEnd \/ get_verse_text(book_num, chapter, v) = NoVerse THEN <<>>
    ELSE <<(IF long THEN <<"[">> \o StrOf(chapter) \o <<":">> \o StrOf(v) \o <<"]", Space>>
                         \o get_verse_text(book_num, chapter, v)
            ELSE Numbered(v, get_verse_text(book_num, chapter, v)))>>
         \o ChapterVerses(book_num, chapter, v + 1, long)

RECURSIVE ChaptersVerses(_, _, _)
ChaptersVerses(book_num, chapter, end_chapter) ==
    IF chapter > end_chapter THEN <<>>
    ELSE ChapterVerses(book_num, chapter, 1, TRUE)
         \o ChaptersVerses(book_num, chapter + 1, end_chapter)

JoinedOrNone(vs) == IF vs = <<>> THEN NoVerse ELSE JoinWithSpace(vs)

\* ScriptureFetcher.get_verses_text_from_parsed
get_verses_text_from_parsed(parsed) ==
    LET n == parsed.nums
    IN  CASE parsed.kind = "single_verse" ->
               IF HasText(get_verse_text(n[1], n[2], n[3]))
               THEN Numbered(n[3], get_verse_text(n[1], n[2], n[3])) ELSE NoVerse
          [] parsed.kind = "verse_range" ->
               JoinedOrNone(RangeVerses(n[1], n[2], n[3], n[4]))
          [] parsed.kind = "chapter_only" -> JoinedOrNone(ChapterVerses(n[1], n[2], 1, FALSE))
          [] parsed.kind = "chapter_range" -> JoinedOrNone(ChaptersVerses(n[1], n[2], n[4]))
          [] OTHER -> NoVerse

\* "[{reference}]"
Bracketed(reference) == <<"[">> \o reference \o <<"]">>

\* get_verses_text, once the reference is parsed
VersesTextOf(reference, parsed) ==
    LET texts == [i \in 1..Len(parsed.items) |-> get_verses_text_from_parsed(parsed.items[i])]
    IN  IF parsed.kind = "None" \/ (parsed.kind = "list" /\ parsed.items = <<>>)
        THEN Bracketed(reference)
        ELSE IF parsed.kind = "list"
        THEN JoinWithSpace(SelectSeq(texts, HasText))
        ELSE get_verses_text_from_parsed(parsed)

\* ScriptureFetcher.get_verses_text: "parsed = self.parse_reference(reference)"
get_verses_text(reference) ==
    CHOOSE text \in {VersesTextOf(reference, parsed) :
                        parsed \in {parse_reference(reference)}} : TRUE

-----------------------------------------------------------------------------
(* westminster_confession_scraper.py: the references of a section *)

\* The abbreviations table, in its order.
abbreviations ==
    <<[abbrev |-> <<"R", "o", "m">>, full_name |-> <<"R", "o", "m", "a", "n", "s">>],
      [abbrev |-> <<"M", "a", "t", "t">>, full_name |-> <<"M", "a", "t", "t", "h", "e", "w">>],
      [abbrev |-> <<"M", "a", "t">>, full_name |-> <<"M", "a", "t", "t", "h", "e", "w">>],
      [abbrev |-> <<"C", "o", "r">>, full_name |-> <<"C", "o", "r", "i", "n", "t", "h", "i", "a", "n", "s">>],
      [abbrev |-> <<"G", "a", "l">>, full_name |-> <<"G", "a", "l", "a", "t", "i", "a", "n", "s">>],
      [abbrev |-> <<"E", "p", "h">>, full_name |-> <<"E", "p", "h", "e", "s", "i", "a", "n", "s">>],
      [abbrev |-> <<"P", "h", "i", "l">>, full_name |-> <<"P", "h", "i", "l", "i", "p", "p", "i", "a", "n", "s">>],
      [abbrev |-> <<"C", "o", "l">>, full_name |-> <<"C", "o", "l", "o", "s", "s", "i", "a", "n", "s">>],
      [abbrev |-> <<"T", "h", "e", "s", "s">>, full_name |-> <<"T", "h", "e", "s", "s", "a", "l", "o", "n", "i", "a", "n", "s">>],
      [abbrev |-> <<"T", "i", "m">>, full_name |-> <<"T", "i", "m", "o", "t", "h", "y">>],
      [abbrev |-> <<"T", "i", "t">>, full_name |-> <<"T", "i", "t", "u", "s">>],
      [abbrev |-> <<"H", "e", "b">>, full_name |-> <<"H", "e", "b", "r", "e", "w", "s">>],
      [abbrev |-> <<"J", "a", "s">>, full_name |-> <<"J", "a", "m", "e", "s">>],
      [abbrev |-> <<"P", "e", "t">>, full_name |-> <<"P", "e", "t", "e", "r">>],
      [abbrev |-> <<"J", "n">>, full_name |-> <<"J", "o", "h", "n">>],
      [abbrev |-> <<"J", "u", "d", "e">>, full_name |-> <<"J", "u", "d", "e">>],
      [abbrev |-> <<"R", "e", "v">>, full_name |-> <<"R", "e", "v", "e", "l", "a", "t", "i", "o", "n">>],
      [abbrev |-> <<"G", "e", "n">>, full_name |-> <<"G", "e", "n", "e", "s", "i", "s">>],
      [abbrev |-> <<"E", "x">>, full_name |-> <<"E", "x", "o", "d", "u", "s">>],
      [abbrev |-> <<"L", "e", "v">>, full_name |-> <<"L", "e", "v", "i", "t", "i", "c", "u", "s">>],
      [abbrev |-> <<"N", "u", "m">>, full_name |-> <<"N", "u", "m", "b", "e", "r", "s">>],
      [abbrev |-> <<"D", "e", "u", "t">>, full_name |-> <<"D", "e", "u", "t", "e", "r", "o", "n", "o", "m", "y">>],
      [abbrev |-> <<"J", "o", "s", "h">>, full_name |-> <<"J", "o", "s", "h", "u", "a">>],
      [abbrev |-> <<"J", "u", "d", "g">>, full_name |-> <<"J", "u", "d", "g", "e", "s">>],
      [abbrev |-> <<"S", "a", "m">>, full_name |-> <<"S", "a", "m", "u", "e", "l">>],
      [abbrev |-> <<"C", "h", "r">>, full_name |-> <<"C", "h", "r", "o", "n", "i", "c", "l", "e", "s">>],
      [abbrev |-> <<"N", "e", "h">>, full_name |-> <<"N", "e", "h", "e", "m", "i", "a", "h">>],
      [abbrev |-> <<"E", "s", "t">>, full_name |-> <<"E", "s", "t", "h", "e", "r">>],
      [abbrev |-> <<"P", "s", "a">>, full_name |-> <<"P", "s", "a", "l", "m", "s">>],
      [abbrev |-> <<"P", "s">>, full_name |-> <<"P", "s", "a", "l", "m", "s">>],
      [abbrev |-> <<"P", "r", "o", "v">>, full_name |-> <<"P", "r", "o", "v", "e", "r", "b", "s">>],
      [abbrev |-> <<"E", "c", "c", "l">>, full_name |-> <<"E", "c", "c", "l", "e", "s", "i", "a", "s", "t", "e", "s">>],
      [abbrev |-> <<"I", "s", "a">>, full_name |-> <<"I", "s", "a", "i", "a", "h">>],
      [abbrev |-> <<"J", "e", "r">>, full_name |-> <<"J", "e", "r", "e", "m", "i", "a", "h">>],
      [abbrev |-> <<"L", "a", "m">>, full_name |-> <<"L", "a", "m", "e", "n", "t", "a", "t", "i", "o", "n", "s">>],
      [abbrev |-> <<"E", "z", "e", "k">>, full_name |-> <<"E", "z", "e", "k", "i", "e", "l">>],
      [abbrev |-> <<"D", "a", "n">>, full_name |-> <<"D", "a", "n", "i", "e", "l">>],
      [abbrev |-> <<"H", "o", "s">>, full_name |-> <<"H", "o", "s", "e", "a">>],
      [abbrev |-> <<"O", "b", "a", "d">>, full_name |-> <<"O", "b", "a", "d", "i", "a", "h">>],
      [abbrev |-> <<"M", "i", "c">>, full_name |-> <<"M", "i", "c", "a", "h">>],
      [abbrev |-> <<"N", "a", "h">>, full_name |-> <<"N", "a", "h", "u", "m">>],
      [abbrev |-> <<"H", "a", "b">>, full_name |-> <<"H", "a", "b", "a", "k", "k", "u", "k">>],
      [abbrev |-> <<"Z", "e", "p", "h">>, full_name |-> <<"Z", "e", "p", "h", "a", "n", "i", "a", "h">>],
      [abbrev |-> <<"H", "a", "g">>, full_name |-> <<"H", "a", "g", "g", "a", "i">>],
      [abbrev |-> <<"Z", "e", "c", "h">>, full_name |-> <<"Z", "e", "c", "h", "a", "r", "i", "a", "h">>],
      [abbrev |-> <<"M", "a", "l">>, full_name |-> <<"M", "a", "l", "a", "c", "h", "i">>]>>

RECURSIVE SubWordFrom(_, _, _, _)
SubWordFrom(t, abbrev, full_name, i) ==
    IF i > Len(t) THEN <<>>
    ELSE IF /\ OccursAt(lower(t), lower(abbrev), i)
            /\ ~WordBefore(t, i)
            /\ ~WordAt(t, i + Len(abbrev))
    THEN full_name \o SubWordFrom(t, abbrev, full_name, i + Len(abbrev))
    ELSE <<t[i]>> \o SubWordFrom(t, abbrev, full_name, i + 1)

\* re.sub(rf'\b{abbrev}\b', full_name, ref, flags=re.IGNORECASE)
SubWord(t, abbrev, full_name) == SubWordFrom(t, abbrev, full_name, 1)

RECURSIVE ReplaceAbbreviations(_, _)
\* "for abbrev, full_name in abbreviations.items(): ref = re.sub(...)"
ReplaceAbbreviations(ref, entries) ==
    IF entries = <<>> THEN ref
    ELSE CHOOSE r \in {ReplaceAbbreviations(replaced, Tail(entries)) :
                          replaced \in {SubWord(ref, entries[1].abbrev,
                                                entries[1].full_name)}} : TRUE

\* r'([1-3]?\s*[A-Za-z]+)\s+(\d+):(\d+)(?:-(\d+))?'
ReBookSpaced == ReSeq(<<ReOpt(ReSet({"1", "2", "3"})), ReSpaces, RePlus(ReSet(Upper \cup Lower))>>)
ReNormal == ReSeq(<<ReBookSpaced, RePlus(ReSpace), ReNumber, ReLit(":"), ReNumber>>)

\* _normalize_bible_reference, once the abbreviations are replaced
NormalizedOf(ref) ==
    LET b == MaxEnd(ReBookSpaced, ref, 1)
        c == MaxEnd(RePlus(ReSpace), ref, b)
        colon == MaxEnd(ReNumber, ref, c)
        v == MaxEnd(ReNumber, ref, colon + 1)
        e == MaxEnd(ReSeq(<<ReLit("-"), ReNumber>>), ref, v)
        book == Strip(Slice(ref, 1, b))
    IN  IF ~re_match(ReNormal, ref) THEN NoVerse
        ELSE book \o <<Space>> \o Slice(ref, c, colon) \o <<":">> \o Slice(ref, colon + 1, v)
             \o (IF e # 0 THEN Slice(ref, v, e) ELSE <<>>)

\* WestminsterConfessionScraper._normalize_bible_reference; NoVerse is None
normalize_bible_reference(reference) ==
    CHOOSE r \in {NormalizedOf(ref) :
                     ref \in {ReplaceAbbreviations(Strip(reference), abbreviations)}} : TRUE

-----------------------------------------------------------------------------
(* westminster_scraper_complete.py: BibleAPIFetcher on the local KJV data *)

\* self.book_names, in the order of the table.
local_book_names ==
    <<[name |-> <<"g", "e", "n", "e", "s", "i", "s">>, num |-> 1],
      [name |-> <<"e", "x", "o", "d", "u", "s">>, num |-> 2],
      [name |-> <<"l", "e", "v", "i", "t", "i", "c", "u", "s">>, num |-> 3],
      [name |-> <<"n", "u", "m", "b", "e", "r", "s">>, num |-> 4],
      [name |-> <<"d", "e", "u", "t", "e", "r", "o", "n", "o", "m", "y">>, num |-> 5],
      [name |-> <<"j", "o", "s", "h", "u", "a">>, num |-> 6],
      [name |-> <<"j", "u", "d", "g", "e", "s">>, num |-> 7],
      [name |-> <<"r", "u", "t", "h">>, num |-> 8],
      [name |-> <<"1", " ", "s", "a", "m", "u", "e", "l">>, num |-> 9],
      [name |-> <<"2", " ", "s", "a", "m", "u", "e", "l">>, num |-> 10],
      [name |-> <<"1", " ", "k", "i", "n", "g", "s">>, num |-> 11],
      [name |-> <<"2", " ", "k", "i", "n", "g", "s">>, num |-> 12],
      [name |-> <<"1", " ", "c", "h", "r", "o", "n", "i", "c", "l", "e", "s">>, num |-> 13],
      [name |-> <<"2", " ", "c", "h", "r", "o", "n", "i", "c", "l", "e", "s">>, num |-> 14],
      [name |-> <<"e", "z", "r", "a">>, num |-> 15],
      [name |-> <<"n", "e", "h", "e", "m", "i", "a", "h">>, num |-> 16],
      [name |-> <<"e", "s", "t", "h", "e", "r">>, num |-> 17],
      [name |-> <<"j", "o", "b">>, num |-> 18],
      [name |-> <<"p", "s", "a", "l", "m", "s">>, num |-> 19],
      [name |-> <<"p", "r", "o", "v", "e", "r", "b", "s">>, num |-> 20],
      [name |-> <<"e", "c", "c", "l", "e", "s", "i", "a", "s", "t", "e", "s">>, num |-> 21],
      [name |-> <<"s", "o", "n", "g", " ", "o", "f", " ", "s", "o", "l", "o", "m", "o", "n">>, num |-> 22],
      [name |-> <<"i", "s", "a", "i", "a", "h">>, num |-> 23],
      [name |-> <<"j", "e", "r", "e", "m", "i", "a", "h">>, num |-> 24],
      [name |-> <<"l", "a", "m", "e", "n", "t", "a", "t", "i", "o", "n", "s">>, num |-> 25],
      [name |-> <<"e", "z", "e", "k", "i", "e", "l">>, num |-> 26],
      [name |-> <<"d", "a", "n", "i", "e", "l">>, num |-> 27],
      [name |-> <<"h", "o", "s", "e", "a">>, num |-> 28],
      [name |-> <<"j", "o", "e", "l">>, num |-> 29],
      [name |-> <<"a", "m", "o", "s">>, num |-> 30],
      [name |-> <<"o", "b", "a", "d", "i", "a", "h">>, num |-> 31],
      [name |-> <<"j", "o", "n", "a", "h">>, num |-> 32],
      [name |-> <<"m", "i", "c", "a", "h">>, num |-> 33],
      [name |-> <<"n", "a", "h", "u", "m">>, num |-> 34],
      [name |-> <<"h", "a", "b", "a", "k", "k", "u", "k">>, num |-> 35],
      [name |-> <<"z", "e", "p", "h", "a", "n", "i", "a", "h">>, num |-> 36],
      [name |-> <<"h", "a", "g", "g", "a", "i">>, num |-> 37],
      [name |-> <<"z", "e", "c", "h", "a", "r", "i", "a", "h">>, num |-> 38],
      [name |-> <<"m", "a", "l", "a", "c", "h", "i">>, num |-> 39],
      [name |-> <<"m", "a", "t", "t", "h", "e", "w">>, num |-> 40],
      [name |-> <<"m", "a", "r", "k">>, num |-> 41],
      [name |-> <<"l", "u", "k", "e">>, num |-> 42],
      [name |-> <<"j", "o", "h", "n">>, num |-> 43],
      [name |-> <<"a", "c", "t", "s">>, num |-> 44],
      [name |-> <<"r", "o", "m", "a", "n", "s">>, num |-> 45],
      [name |-> <<"1", " ", "c", "o", "r", "i", "n", "t", "h", "i", "a", "n", "s">>, num |-> 46],
      [name |-> <<"2", " ", "c", "o", "r", "i", "n", "t", "h", "i", "a", "n", "s">>, num |-> 47],
      [name |-> <<"g", "a", "l", "a", "t", "i", "a", "n", "s">>, num |-> 48],
      [name |-> <<"e", "p", "h", "e", "s", "i", "a", "n", "s">>, num |-> 49],
      [name |-> <<"p", "h", "i", "l", "i", "p", "p", "i", "a", "n", "s">>, num |-> 50],
      [name |-> <<"c", "o", "l", "o", "s", "s", "i", "a", "n", "s">>, num |-> 51],
      [name |-> <<"1", " ", "t", "h", "e", "s", "s", "a", "l", "o", "n", "i", "a", "n", "s">>, num |-> 52],
      [name |-> <<"2", " ", "t", "h", "e", "s", "s", "a", "l", "o", "n", "i", "a", "n", "s">>, num |-> 53],
      [name |-> <<"1", " ", "t", "i", "m", "o", "t", "h", "y">>, num |-> 54],
      [name |-> <<"2", " ", "t", "i", "m", "o", "t", "h", "y">>, num |-> 55],
      [name |-> <<"t", "i", "t", "u", "s">>, num |-> 56],
      [name |-> <<"p", "h", "i", "l", "e", "m", "o", "n">>, num |-> 57],
      [name |-> <<"h", "e", "b", "r", "e", "w", "s">>, num |-> 58],
      [name |-> <<"j", "a", "m", "e", "s">>, num |-> 59],
      [name |-> <<"1", " ", "p", "e", "t", "e", "r">>, num |-> 60],
      [name |-> <<"2", " ", "p", "e", "t", "e", "r">>, num |-> 61],
      [name |-> <<"1", " ", "j", "o", "h", "n">>, num |-> 62],
      [name |-> <<"2", " ", "j", "o", "h", "n">>, num |-> 63],
      [name |-> <<"3", " ", "j", "o", "h", "n">>, num |-> 64],
      [name |-> <<"j", "u", "d", "e">>, num |-> 65],
      [name |-> <<"r", "e", "v", "e", "l", "a", "t", "i", "o", "n">>, num |-> 66]>>

\* The mappings of _normalize_book_for_lookup.
mappings(book) ==
    CASE book = <<"p", "s", "a">> -> <<"p", "s", "a", "l", "m", "s">>
      [] book = <<"p", "s">> -> <<"p", "s", "a", "l", "m", "s">>
      [] book = <<"m", "a", "t", "t">> -> <<"m", "a", "t", "t", "h", "e", "w">>
      [] book = <<"r", "o", "m">> -> <<"r", "o", "m", "a", "n", "s">>
      [] book = <<"c", "o", "r">> -> <<"c", "o", "r", "i", "n", "t", "h", "i", "a", "n", "s">>
      [] book = <<"g", "a", "l">> -> <<"g", "a", "l", "a", "t", "i", "a", "n", "s">>
      [] book = <<"e", "p", "h">> -> <<"e", "p", "h", "e", "s", "i", "a", "n", "s">>
      [] book = <<"p", "h", "i", "l">> -> <<"p", "h", "i", "l", "i", "p", "p", "i", "a", "n", "s">>
      [] book = <<"c", "o", "l">> -> <<"c", "o", "l", "o", "s", "s", "i", "a", "n", "s">>
      [] book = <<"t", "h", "e", "s", "s">> -> <<"t", "h", "e", "s", "s", "a", "l", "o", "n", "i", "a", "n", "s">>
      [] book = <<"t", "i", "m">> -> <<"t", "i", "m", "o", "t", "h", "y">>
      [] book = <<"t", "i", "t">> -> <<"t", "i", "t", "u", "s">>
      [] book = <<"h", "e", "b">> -> <<"h", "e", "b", "r", "e", "w", "s">>
      [] book = <<"j", "a", "s">> -> <<"j", "a", "m", "e", "s">>
      [] book = <<"p", "e", "t">> -> <<"p", "e", "t", "e", "r">>
      [] book = <<"r", "e", "v">> -> <<"r", "e", "v", "e", "l", "a", "t", "i", "o", "n">>
      [] OTHER -> book

\* BibleAPIFetcher._normalize_book_for_lookup
normalize_book_for_lookup(book) ==
    IF \E d \in {"1", "2"} : StartsWith(book, <<d, Space>>)
    THEN LET base == SubSeq(book, 3, Len(book))
         IN  IF mappings(base) # base THEN SubSeq(book, 1, 2) \o mappings(base)
             ELSE IF base = <<"s", "a", "m">> THEN SubSeq(book, 1, 2) \o <<"s", "a", "m", "u", "e", "l">>
             ELSE IF base = <<"c", "o", "r">> THEN SubSeq(book, 1, 2) \o <<"c", "o", "r", "i", "n", "t", "h", "i", "a", "n", "s">>
             ELSE IF base \in {<<"c", "h", "r">>, <<"c", "h", "r", "o", "n", "i", "c", "l", "e", "s">>} THEN SubSeq(book, 1, 2) \o <<"c", "h", "r", "o", "n", "i", "c", "l", "e", "s">>
             ELSE mappings(book)
    ELSE IF StartsWith(book, <<"3", Space>>) THEN book
    ELSE mappings(book)

\* "self.book_name_to_num.get(full_book)", then "Try partial matching"
BookNumOf(full_book) ==
    LET exact == {i \in 1..Len(local_book_names) : local_book_names[i].name = full_book}
        partial == {i \in 1..Len(local_book_names) :
                       \/ Contains(local_book_names[i].name, full_book)
                       \/ StartsWith(local_book_names[i].name,
                                     SubSeq(full_book, 1, IF Len(full_book) < 3
                                                          THEN Len(full_book) ELSE 3))}
        First(S) == CHOOSE i \in S : \A j \in S : i <= j
    IN  IF exact # {} THEN local_book_names[First(exact)].num
        ELSE IF partial # {} THEN local_book_names[First(partial)].num
        ELSE 0

\* r'(\d+\s+)?([A-Za-z]+\.?)\s+(\d+):(.+)'
ReNumberPrefix == ReSeq(<<ReNumber, RePlus(ReSpace)>>)
ReBookPart == ReSeq(<<RePlus(ReSet(Upper \cup Lower)), ReOpt(ReLit("."))>>)
ReLocal ==
    ReSeq(<<ReOpt(ReNumberPrefix), ReBookPart, RePlus(ReSpace), ReNumber, ReLit(":"),
            RePlus(ReAny)>>)

\* int(text.strip()) raises ValueError unless the text is a number.
IsInt(t) == IsDigit(Strip(t))

Raised == <<"<raised>">>

\* The verses of chapter_data among the numbers of a list, labelled or not.
RECURSIVE FoundVerses(_, _, _)
FoundVerses(chapter_data, verse_nums, labelled) ==
    IF verse_nums = <<>> THEN <<>>
    ELSE (IF verse_nums[1] \in 1..Len(chapter_data)
          THEN <<IF labelled THEN Numbered(verse_nums[1], chapter_data[verse_nums[1]])
                 ELSE chapter_data[verse_nums[1]]>>
          ELSE <<>>)
         \o FoundVerses(chapter_data, Tail(verse_nums), labelled)

RECURSIVE JoinWith(_, _)
\* sep.join(texts)
JoinWith(ts, sep) ==
    IF ts = <<>> THEN <<>>
    ELSE IF Len(ts) = 1 THEN ts[1]
    ELSE ts[1] \o sep \o JoinWith(Tail(ts), sep)

\* _parse_and_lookup_reference on the stripped reference
LookupStripped(reference, ref) ==
    LET prefix_end == MaxEnd(ReOpt(ReNumberPrefix), ref, 1)
        b == MaxEnd(ReBookPart, ref, prefix_end)
        c == MaxEnd(RePlus(ReSpace), ref, b)
        colon == MaxEnd(ReNumber, ref, c)
        verse_part == SubSeq(ref, colon + 1, Len(ref))
        full_book == normalize_book_for_lookup(lower(Strip(Slice(ref, 1, b))))
        book_num == BookNumOf(full_book)
        chapter_data == KjvChapter(book_num, IntOf(Slice(ref, c, colon)))
        is_consecutive == Contains(reference, <<"-">>) /\ ~Contains(reference, <<",">>)
        range_parts == Split(verse_part, "-")
        comma_parts == Split(verse_part, ",")
        verses ==
            IF Contains(verse_part, <<"-">>) /\ ~Contains(verse_part, <<",">>)
            THEN FoundVerses(chapter_data,
                             [i \in 1..(IntOf(Strip(range_parts[2]))
                                        - IntOf(Strip(range_parts[1])) + 1)
                                 |-> IntOf(Strip(range_parts[1])) + i - 1],
                             is_consecutive)
            ELSE IF Contains(verse_part, <<",">>)
            THEN FoundVerses(chapter_data,
                             [i \in 1..Len(comma_parts) |-> IntOf(Strip(comma_parts[i]))],
                             TRUE)
            ELSE FoundVerses(chapter_data, <<IntOf(Strip(verse_part))>>, FALSE)
        raises ==
            IF Contains(verse_part, <<"-">>) /\ ~Contains(verse_part, <<",">>)
            THEN Len(range_parts) # 2 \/ ~IsInt(range_parts[1]) \/ ~IsInt(range_parts[2])
            ELSE IF Contains(verse_part, <<",">>)
            THEN \E i \in 1..Len(comma_parts) : ~IsInt(comma_parts[i])
            ELSE ~IsInt(verse_part)
    IN  IF ~re_match(ReLocal, ref) THEN NoVerse
        ELSE IF book_num = 0 THEN NoVerse
        ELSE IF chapter_data = <<>> THEN NoVerse
        ELSE IF raises THEN Raised
        ELSE IF verses = <<>> THEN NoVerse
        ELSE IF is_consecutive THEN JoinWithSpace(verses)
        ELSE JoinWith(verses, <<Space, "|", Space>>)

\* BibleAPIFetcher._parse_and_lookup_reference: the text, NoVerse for None,
\* Raised when an exception leaves the function.
parse_and_lookup_reference(reference) ==
    CHOOSE r \in {LookupStripped(reference, ref) : ref \in {Strip(reference)}} : TRUE

\* "[Reference not found] {reference}" and its like
Tagged(tag, reference) == <<"[">> \o tag \o <<"]", Space>> \o reference

-----------------------------------------------------------------------------
(* The runs that look the citations of a section up:                        *)
(*   create_complete_westminster_confession (complete_westminster_..),      *)
(*   WestminsterConfessionScraper._process_proof_texts,                     *)
(*   the proof-text loop of westminster_scraper_complete,                   *)
(*   ScriptureFetcher.update_proof_texts.                                   *)
(* The first two ask the remote API through BibleAPIFetcher, with its       *)
(* cache and its rate limit; the other two read the KJV file.               *)

CompleteConfession == "complete_westminster_confession"
ConfessionScraper == "westminster_confession_scraper"
ScraperComplete == "westminster_scraper_complete"
FetchScriptures == "fetch_scriptures"
RemoteScripts == {CompleteConfession, ConfessionScraper}
LookupScripts == {CompleteConfession, ConfessionScraper, ScraperComplete, FetchScriptures}

\* The citations a section can carry.
Citations ==
    {<<"R", "o", "m", " ", "1", ":", "2">>, <<"P", "s", " ", "2", ":", "1">>, <<"R", "o", "m", " ", "9", ":", "9">>, <<"S", "o", "n", "g", " ", "o", "f", " ", "S", "o", "l", " ", "1", ":", "2">>, <<"i", "b", "i", "d">>}

\* What the API can answer: a text, an empty text, an error.
Outcomes == {"text", "empty", "error"}

\* "[Could not fetch verse text]"
CouldNotFetch == <<"[", "C", "o", "u", "l", "d", " ", "n", "o", "t", " ", "f", "e", "t", "c", "h", " ", "v", "e", "r", "s", "e", " ", "t", "e", "x", "t", "]">>

ProofEntry(reference, text) == [reference |-> reference, text |-> text]

TextOnly(text, placeholder) == text

\* "text if text else placeholder"
TextOrPlaceholder(text, placeholder) == IF HasText(text) THEN text ELSE placeholder

CacheNothing(c, reference, value) == c

\* "self.cache[reference] = result"
CacheStore(c, reference, value) ==
    [k \in DOMAIN c \cup {reference} |-> IF k = reference THEN value ELSE c[k]]

Looked(reference, value, remote) == [ref |-> reference, value |-> value, remote |-> remote]

\* The reference a remote script asks the fetcher for: the reference itself,
\* or "normalized_ref = self._normalize_bible_reference(ref)".
KeyOf(sc, reference) ==
    IF sc = ConfessionScraper THEN normalize_bible_reference(reference) ELSE reference

\* What the request of the API gives get_verse_text.
ApiResult(reference, outcome) ==
    CASE outcome = "text" -> VerseText(reference)
      [] outcome = "empty" -> <<>>
      [] outcome = "error" -> NoVerse

LookStart(sc, loaded) ==
    /\ lpc = "idle"
    /\ lscript' = sc
    /\ bible_data' = (sc = ScraperComplete /\ loaded)
    /\ lpc' = "loop"
    /\ UNCHANGED <<citations, lpos, proof_texts, looked>>
    /\ UNCHANGED <<rateVars, segVars, mainVars, bindVars, tableVars, pureVars>>

\* "if normalized_ref:" fails: the loop goes to the next reference.
SkipReference ==
    /\ lpc = "loop"
    /\ lscript = ConfessionScraper
    /\ lpos <= Len(citations)
    /\ KeyOf(lscript, citations[lpos]) = NoVerse
    /\ lpos' = lpos + 1
    /\ UNCHANGED <<lscript, citations, proof_texts, bible_data, looked, lpc>>
    /\ UNCHANGED <<rateVars, segVars, mainVars, bindVars, tableVars, pureVars>>

\* One reference of a remote script whose text the cache holds:
\* "if reference in self.cache: return self.cache[reference]".
LookupCached ==
    /\ lpc = "loop"
    /\ lscript \in RemoteScripts
    /\ lpos <= Len(citations)
    /\ \E key \in {KeyOf(lscript, citations[lpos])} :
           /\ key # NoVerse
           /\ key \in DOMAIN cache
           /\ proof_texts' = Append(proof_texts,
                                    ProofEntry(key, TextOrPlaceholder(cache[key], CouldNotFetch)))
           /\ looked' = Append(looked, Looked(key, cache[key], FALSE))
           /\ lastCall' = [ref |-> key, value |-> cache[key], remote |-> FALSE, slept |-> FALSE]
    /\ lpos' = lpos + 1
    /\ UNCHANGED <<lscript, citations, bible_data, lpc>>
    /\ UNCHANGED <<now, request_count, last_request_time, cache, sent, nsent, ticks>>
    /\ UNCHANGED <<segVars, mainVars, bindVars, tableVars, pureVars>>

\* One reference of a remote script that the cache lacks: _rate_limit(), the
\* request, and the entry of the reference.
LookupRemote(outcome) ==
    /\ lpc = "loop"
    /\ lscript \in RemoteScripts
    /\ lpos <= Len(citations)
    /\ \E key \in {KeyOf(lscript, citations[lpos])} :
       LET r == RateLimitCall(request_count, last_request_time, now)
           result == ApiResult(key, outcome)
       IN  /\ key # NoVerse
           /\ key \notin DOMAIN cache
           /\ request_count' = r.count
           /\ last_request_time' = r.last
           /\ now' = r.clock
           /\ sent' = KeepLast(Append(sent, r.clock), SentKept)
           /\ nsent' = nsent + 1
           /\ cache' = IF result # NoVerse THEN CacheStore(cache, key, result) ELSE cache
           /\ lastCall' = [ref |-> key, value |-> result, remote |-> TRUE, slept |-> r.slept]
           /\ proof_texts' = Append(proof_texts,
                                    ProofEntry(key, TextOrPlaceholder(result, CouldNotFetch)))
           /\ looked' = Append(looked, Looked(key, result, TRUE))
    /\ lpos' = lpos + 1
    /\ UNCHANGED <<lscript, citations, bible_data, lpc, ticks>>
    /\ UNCHANGED <<segVars, mainVars, bindVars, tableVars, pureVars>>

\* BibleAPIFetcher.get_verse_text of westminster_scraper_complete on a
\* reference the cache lacks: the value, and whether it is cached.
LocalVerseText(reference, loaded) ==
    IF ~loaded
    THEN [value |-> Tagged(<<"B", "i", "b", "l", "e", " ", "d", "a", "t", "a", " ", "n", "o", "t", " ", "l", "o", "a", "d", "e", "d">>, reference), cached |-> FALSE]
    ELSE CHOOSE got \in
           {IF result = Raised
            THEN [value |-> Tagged(<<"L", "o", "o", "k", "u", "p", " ", "e", "r", "r", "o", "r">>, reference), cached |-> TRUE]
            ELSE IF HasText(result) THEN [value |-> result, cached |-> TRUE]
            ELSE [value |-> Tagged(<<"R", "e", "f", "e", "r", "e", "n", "c", "e", " ", "n", "o", "t", " ", "f", "o", "u", "n", "d">>, reference), cached |-> TRUE] :
            result \in {parse_and_lookup_reference(reference)}} : TRUE

\* One reference of westminster_scraper_complete.
LookupLocal ==
    /\ lpc = "loop"
    /\ lscript = ScraperComplete
    /\ lpos <= Len(citations)
    /\ \E got \in {LocalVerseText(citations[lpos], bible_data)} :
       LET reference == citations[lpos]
           hit == reference \in DOMAIN cache
           value == IF hit THEN cache[reference] ELSE got.value
       IN  /\ cache' = IF ~hit /\ got.cached THEN CacheStore(cache, reference, value)
                       ELSE cache
           /\ lastCall' = [ref |-> reference, value |-> value, remote |-> FALSE,
                           slept |-> FALSE]
           /\ proof_texts' = Append(proof_texts,
                                    ProofEntry(reference, TextOrPlaceholder(value, CouldNotFetch)))
           /\ looked' = Append(looked, Looked(reference, value, FALSE))
    /\ lpos' = lpos + 1
    /\ UNCHANGED <<lscript, citations, bible_data, lpc>>
    /\ UNCHANGED <<now, request_count, last_request_time, sent, nsent, ticks>>
    /\ UNCHANGED <<segVars, mainVars, bindVars, tableVars, pureVars>>

\* One proof text of ScriptureFetcher.update_proof_texts.
UpdateProofText ==
    /\ lpc = "loop"
    /\ lscript = FetchScriptures
    /\ lpos <= Len(citations)
    /\ \E text \in {get_verses_text(citations[lpos])} :
       LET reference == citations[lpos]
       IN  /\ proof_texts' = Append(proof_texts,
                                    ProofEntry(reference,
                                               TextOrPlaceholder(text, Bracketed(reference))))
           /\ looked' = Append(looked, Looked(reference, text, FALSE))
    /\ lpos' = lpos + 1
    /\ UNCHANGED <<lscript, citations, bible_data, lpc>>
    /\ UNCHANGED <<rateVars, segVars, mainVars, bindVars, tableVars, pureVars>>

\* The loop is over: the proof texts go into the document that is written.
LookFinish ==
    /\ lpc = "loop"
    /\ lpos > Len(citations)
    /\ lpc' = "done"
    /\ UNCHANGED <<lscript, citations, lpos, proof_texts, bible_data, looked>>
    /\ UNCHANGED <<rateVars, segVars, mainVars, bindVars, tableVars, pureVars>>

\* A fetcher just built: "self.cache = {}", no request made.
FreshFetcher ==
    /\ now = StartTime
    /\ request_count = 0
    /\ last_request_time = 0
    /\ cache = EmptyTable
    /\ sent = <<>>
    /\ nsent = 0
    /\ ticks = 0
    /\ lastCall = [ref |-> <<>>, value |-> NoVerse, remote |-> FALSE, slept |-> FALSE]

InitLook ==
    /\ FreshFetcher
    /\ TableIdle
    /\ PureIdle
    /\ SegIdle
    /\ MainIdle
    /\ BindIdle
    /\ lscript = "none"
    /\ citations \in SeqsUpTo(Citations, MaxRefs)
    /\ lpos = 1
    /\ proof_texts = <<>>
    /\ bible_data = FALSE
    /\ looked = <<>>
    /\ lpc = "idle"

NextLook ==
    \/ \E sc \in LookupScripts, loaded \in BOOLEAN : LookStart(sc, loaded)
    \/ SkipReference
    \/ LookupCached
    \/ \E outcome \in Outcomes : LookupRemote(outcome)
    \/ LookupLocal
    \/ UpdateProofText
    \/ LookFinish

SpecLook == InitLook /\ [][NextLook]_vars

-----------------------------------------------------------------------------
(* extract_shorter_catechism_final.py: extract_references_from_footnotes,   *)
(* on one footnote. A span is its text and whether it is bold; the text of  *)
(* the footnote is its number followed by the texts of its spans.           *)

JSpan(t, bold) == [text |-> t, is_bold |-> bold]

\* r'^[A-Z][a-z]+$', r'^\d+$', r'^\d+:', r'^\d+-\d+'
ReBookName == ReSeq(<<ReSet(Upper), RePlus(ReSet(Lower)), ReEnd>>)
ReJustNumber == ReSeq(<<RePlus(ReDigit), ReEnd>>)
ReNumberColon == ReSeq(<<RePlus(ReDigit), ReLit(":")>>)
ReVerseRange == ReSeq(<<RePlus(ReDigit), ReLit("-"), RePlus(ReDigit)>>)

\* re.search(r'\d$', text)
EndsWithDigit(t) == t # <<>> /\ t[Len(t)] \in AllDigits

\* re.search(pattern, text): the pattern matches at some index.
re_search(re, t) == Ends(re, t, 1..(Len(t) + 1)) # {}

\* "should_combine", from the raw text of the part before and the stripped
\* text of the span.
should_combine(prev_text, text) ==
    \/ EndsWithDigit(prev_text) /\ text[1] \in {":", ",", "-", "."}
    \/ re_match(ReJustNumber, text) /\ re_match(ReBookName, prev_text)
    \/ re_match(ReNumberColon, text) /\ re_match(ReBookName, prev_text)
    \/ re_match(ReVerseRange, text) /\ EndsWithDigit(prev_text)

RECURSIVE CombineLoop(_, _, _, _)
\* "Combine consecutive bold spans that belong to the same reference":
\* combined_refs, each a list of raw texts.
CombineLoop(bold_spans, i, current_ref_parts, combined_refs) ==
    IF i > Len(bold_spans)
    THEN IF current_ref_parts # <<>> THEN Append(combined_refs, current_ref_parts)
         ELSE combined_refs
    ELSE LET text == Strip(bold_spans[i].text)
         IN  IF text = <<>>
             THEN CombineLoop(bold_spans, i + 1, current_ref_parts, combined_refs)
             ELSE IF current_ref_parts # <<>>
                     /\ should_combine(current_ref_parts[Len(current_ref_parts)], text)
             THEN CombineLoop(bold_spans, i + 1,
                              Append(current_ref_parts, bold_spans[i].text), combined_refs)
             ELSE CombineLoop(bold_spans, i + 1, <<bold_spans[i].text>>,
                              IF current_ref_parts # <<>>
                              THEN Append(combined_refs, current_ref_parts)
                              ELSE combined_refs)

RECURSIVE DropLeading(_, _)
\* re.sub(r'^[...]+', '', text) for a set of characters
DropLeading(t, S) == IF t # <<>> /\ t[1] \in S THEN DropLeading(Tail(t), S) ELSE t

\* re.sub(r'\.$', '', text)
DropLastPeriod(t) ==
    IF t # <<>> /\ t[Len(t)] = "." THEN SubSeq(t, 1, Len(t) - 1) ELSE t

\* re.sub(r'^With\s+', '', text)
DropWith(t) ==
    IF StartsWith(t, <<"W", "i", "t", "h", " ">>) THEN DropLeading(SubSeq(t, 5, Len(t)), {Space}) ELSE t

\* book_mappings, in its order.
book_mappings ==
    << [short_name |-> <<"C", "o", "r", "i", "n", "t", "h", "i", "a", "n", "s">>, full_name |-> <<"1", " ", "C", "o", "r", "i", "n", "t", "h", "i", "a", "n", "s">>],
       [short_name |-> <<"K", "i", "n", "g", "s">>, full_name |-> <<"1", " ", "K", "i", "n", "g", "s">>],
       [short_name |-> <<"T", "i", "m", "o", "t", "h", "y">>, full_name |-> <<"2", " ", "T", "i", "m", "o", "t", "h", "y">>],
       [short_name |-> <<"P", "e", "t", "e", "r">>, full_name |-> <<"1", " ", "P", "e", "t", "e", "r">>],
       [short_name |-> <<"T", "h", "e", "s", "s", "a", "l", "o", "n", "i", "a", "n", "s">>, full_name |-> <<"1", " ", "T", "h", "e", "s", "s", "a", "l", "o", "n", "i", "a", "n", "s">>],
       [short_name |-> <<"J", "o", "h", "n">>, full_name |-> <<"1", " ", "J", "o", "h", "n">>] >>

RECURSIVE FixBookNumber(_, _)
\* "Fix missing book numbers": the first mapping whose short name, followed
\* by a space, starts the reference.
FixBookNumber(ref, i) ==
    IF i > Len(book_mappings) THEN ref
    ELSE IF StartsWith(ref, book_mappings[i].short_name \o <<Space>>)
    THEN book_mappings[i].full_name
             \o SubSeq(ref, Len(book_mappings[i].short_name) + 1, Len(ref))
    ELSE FixBookNumber(ref, i + 1)

\* "Clean the reference"
cleaned_ref(full_ref) ==
    FixBookNumber(
        DropWith(DropLastPeriod(Strip(DropLeading(full_ref, AllDigits \cup {Space, "."})))),
        1)

\* r'^[A-Za-z\s\d:,]+$' and the patterns of a scripture reference
ReRefChars ==
    ReSeq(<<RePlus(ReSet(Upper \cup Lower \cup AllDigits \cup {Space, ":", ","})), ReEnd>>)
ReCapitalWord == ReSeq(<<ReSet(Upper), RePlus(ReSet(Lower))>>)
ReNumberedBook == ReSeq(<<RePlus(ReDigit), RePlus(ReSpace), ReCapitalWord>>)
ReBookNumber == ReSeq(<<ReCapitalWord, RePlus(ReSpace), RePlus(ReDigit)>>)

\* "Check if this looks like a valid scripture reference"
LooksValid(ref) ==
    /\ Len(ref) > 2
    /\ re_match(ReRefChars, ref)
    /\ \/ re_search(ReChapterVerse, ref)
       \/ re_match(ReCapitalWord, ref)
       \/ re_match(ReNumberedBook, ref)
       \/ re_match(ReBookNumber, ref)

\* The start of the nearest other reference after ref_end, 0 when none is
\* found: "if other_ref_parts != ref_parts" compares the lists of parts.
NextRefStart(text, combined_refs, ref_parts, ref_end) ==
    LET found == {Find(text, Concat(combined_refs[k]), ref_end) :
                     k \in {j \in 1..Len(combined_refs) : combined_refs[j] # ref_parts}}
                 \ {0}
    IN  IF found = {} THEN 0 ELSE CHOOSE p \in found : \A q \in found : p <= q

\* "Clean scripture text": whitespace runs become one space, then
\* re.sub(r'^\d+\s*', '', text).
clean_scripture(t) ==
    LET collapsed == CollapseSpaces(t)
    IN  IF collapsed # <<>> /\ collapsed[1] \in AllDigits
        THEN DropLeading(DropLeading(collapsed, AllDigits), {Space})
        ELSE collapsed

JReference(reference, scripture_text) ==
    [reference |-> reference, scripture_text |-> scripture_text]

\* The reference one combined reference gives, none when it does not look
\* valid or its text is not found in the footnote.
ReferenceOfParts(text, combined_refs, ref_parts) ==
    LET full_ref == Concat(ref_parts)
        cleaned == cleaned_ref(full_ref)
        ref_start == Find(text, full_ref, 1)
        ref_end == ref_start + Len(full_ref)
        next_ref_start == NextRefStart(text, combined_refs, ref_parts, ref_end)
        scripture_text == IF next_ref_start # 0
                          THEN Strip(Slice(text, ref_end, next_ref_start))
                          ELSE Strip(Slice(text, ref_end, Len(text) + 1))
    IN  IF LooksValid(cleaned) /\ ref_start # 0
        THEN <<JReference(cleaned, clean_scripture(scripture_text))>>
        ELSE <<>>

\* The number a footnote of the section starts with.
FootnoteNumberText == <<"1">>

BoldTexts(ss) ==
    LET IsBold(span) == span.is_bold
        bold_spans == SelectSeq(ss, IsBold)
    IN  [i \in 1..Len(bold_spans) |-> bold_spans[i].text]

SpanTexts(ss) == [i \in 1..Len(ss) |-> ss[i].text]

extract_references_from_footnotes(ss) ==
    LET text == FootnoteNumberText \o Concat(SpanTexts(ss))
        IsBold(span) == span.is_bold
    IN  Concat([k \in 1..Len(CombineLoop(SelectSeq(ss, IsBold), 1, <<>>, <<>>)) |->
                   ReferenceOfParts(text, CombineLoop(SelectSeq(ss, IsBold), 1, <<>>, <<>>),
                                    CombineLoop(SelectSeq(ss, IsBold), 1, <<>>, <<>>)[k])])

-----------------------------------------------------------------------------
(* extract_shorter_catechism_simple.py: combine_split_references *)

RECURSIVE SimpleCombineLoop(_, _, _)
SimpleCombineLoop(bold_references, i, combined_references) ==
    IF i > Len(bold_references) THEN combined_references
    ELSE LET current_text == Strip(bold_references[i])
         IN  IF /\ re_match(ReBookName, current_text)
                /\ i + 1 <= Len(bold_references)
                /\ re_match(ReChapterVerse, Strip(bold_references[i + 1]))
             THEN SimpleCombineLoop(bold_references, i + 2,
                      Append(combined_references,
                             current_text \o <<Space>> \o Strip(bold_references[i + 1])))
             ELSE SimpleCombineLoop(bold_references, i + 1,
                      IF current_text # <<>> THEN Append(combined_references, current_text)
                      ELSE combined_references)

combine_split_references(bold_references) == SimpleCombineLoop(bold_references, 1, <<>>)

-----------------------------------------------------------------------------
(* The combiners run on the spans of one footnote. *)

ShorterFinal == "extract_shorter_catechism_final"
ShorterSimple == "extract_shorter_catechism_simple"
CombineScripts == {ShorterFinal, ShorterSimple}

\* The spans of the modelled footnotes: a book name, a chapter and verse, a
\* reference cut before its colon and the rest of it, and scripture text.
JSpanKinds ==
    { JSpan(<<"J", "o", "h", "n">>, TRUE), JSpan(<<"3", ":", "1", "6">>, TRUE), JSpan(<<"M", "a", "r", "k", " ", "3">>, TRUE),
      JSpan(<<":", "1", "6">>, TRUE), JSpan(<<" ", "a", "b", " ">>, FALSE) }

CombineReferences(sc) ==
    /\ jscript = "none"
    /\ jscript' = sc
    /\ jrefs' = IF sc = ShorterFinal THEN extract_references_from_footnotes(jspans)
                ELSE LET rs == combine_split_references(BoldTexts(jspans))
                     IN  [i \in 1..Len(rs) |-> JReference(rs[i], <<>>)]
    /\ UNCHANGED jspans
    /\ UNCHANGED <<rateVars, segVars, mainVars, bindVars, tableVars, lookVars>>
    /\ UNCHANGED <<normVars, twiceVars, formatVars, fixVars, pageVars>>

InitCombine ==
    /\ RateIdle
    /\ SegIdle
    /\ MainIdle
    /\ BindIdle
    /\ TableIdle
    /\ LookIdle
    /\ NormIdle
    /\ TwiceIdle
    /\ FormatIdle
    /\ FixIdle
    /\ PageIdle
    /\ jscript = "none"
    /\ jspans \in SeqsUpTo(JSpanKinds, MaxParts)
    /\ jrefs = <<>>

NextCombine == \E sc \in CombineScripts : CombineReferences(sc)

SpecCombine == InitCombine /\ [][NextCombine]_vars

-----------------------------------------------------------------------------
(* convert_creeds_json.py: convert_reference_format *)

\* r"([A-Za-z]+)\.(\d+)\.(\d+)"
ReCreedsRef ==
    ReSeq(<<RePlus(ReSet(Upper \cup Lower)), ReLit("."), ReNumber, ReLit("."), ReNumber>>)

\* The groups of a match of ReCreedsRef at the start of t.
CreedsGroups(t) ==
    LET b == MaxEnd(RePlus(ReSet(Upper \cup Lower)), t, 1)
        c == MaxEnd(ReNumber, t, b + 1)
        v == MaxEnd(ReNumber, t, c + 1)
    IN  [book |-> Slice(t, 1, b), chapter |-> Slice(t, b + 1, c), verse |-> Slice(t, c + 1, v)]

\* f"{book} {chapter}:{verse}"
ChapterAndVerse(book, chapter, verse) == book \o <<Space>> \o chapter \o <<":">> \o verse

\* "Handle single references"
ConvertSingle(ref) ==
    IF re_match(ReCreedsRef, ref)
    THEN ChapterAndVerse(CreedsGroups(ref).book, CreedsGroups(ref).chapter,
                         CreedsGroups(ref).verse)
    ELSE ref

convert_reference_format(ref) ==
    IF Contains(ref, <<"-">>)
       /\ re_match(ReCreedsRef, Split(ref, "-")[1])
       /\ re_match(ReCreedsRef, Split(ref, "-")[2])
    THEN LET start == CreedsGroups(Split(ref, "-")[1])
             end == CreedsGroups(Split(ref, "-")[2])
         IN  IF start.chapter = end.chapter
             THEN ChapterAndVerse(start.book, start.chapter, start.verse)
                      \o <<"-">> \o end.verse
             ELSE ChapterAndVerse(start.book, start.chapter, start.verse)
                      \o <<"-">> \o end.chapter \o <<":">> \o end.verse
    ELSE ConvertSingle(ref)

-----------------------------------------------------------------------------
(* The normalisers run on two references. *)

ParseReference == "parse_reference"
ConvertReferenceFormat == "convert_reference_format"

\* References as the sources cite them: a verse of 1 Corinthians and a verse
\* of Romans, each in the dotted form, with the full book name and with the
\* abbreviation, and a range in the dotted form.
CitedReferences ==
    { <<"1", "C", "o", "r", ".", "1", ".", "2", "1">>, <<"1", " ", "C", "o", "r", "i", "n", "t", "h", "i", "a", "n", "s", " ", "1", ":", "2", "1">>, <<"1", "C", "o", "r", " ", "1", ":", "2", "1">>,
      <<"R", "o", "m", ".", "1", ".", "2">>, <<"R", "o", "m", "a", "n", "s", " ", "1", ":", "2">>, <<"R", "o", "m", " ", "1", ":", "2">>, <<"R", "o", "m", ".", "1", ".", "2", "-", "R", "o", "m", ".", "1", ".", "3">> }

\* parse_reference on each of the two references.
ParseReferences ==
    /\ nfn = "none"
    /\ nfn' = ParseReference
    /\ nout' = [i \in 1..Len(nrefs) |-> parse_reference(nrefs[i])]
    /\ UNCHANGED nrefs
    /\ UNCHANGED <<rateVars, segVars, mainVars, bindVars, tableVars, lookVars>>
    /\ UNCHANGED <<combineVars, twiceVars, formatVars, fixVars, pageVars>>

\* convert_reference_format on each of the two references.
ConvertReferences ==
    /\ nfn = "none"
    /\ nfn' = ConvertReferenceFormat
    /\ nout' = [i \in 1..Len(nrefs) |-> convert_reference_format(nrefs[i])]
    /\ UNCHANGED nrefs
    /\ UNCHANGED <<rateVars, segVars, mainVars, bindVars, tableVars, lookVars>>
    /\ UNCHANGED <<combineVars, twiceVars, formatVars, fixVars, pageVars>>

InitNorm ==
    /\ RateIdle
    /\ SegIdle
    /\ MainIdle
    /\ BindIdle
    /\ TableIdle
    /\ LookIdle
    /\ CombineIdle
    /\ TwiceIdle
    /\ FormatIdle
    /\ FixIdle
    /\ PageIdle
    /\ nfn = "none"
    /\ nrefs \in {<<r, s>> : r \in CitedReferences, s \in CitedReferences}
    /\ nout = <<>>

NextNorm == ParseReferences \/ ConvertReferences

SpecNorm == InitNorm /\ [][NextNorm]_vars

-----------------------------------------------------------------------------
(* westminster_scraper_complete.py: _extract_all_chapters, and               *)
(* extract_multi_page_catechism.py: extract_multi_page_catechism, each run   *)
(* more than once on the same input.                                         *)

\* A <p> of the page: the section number its Roman numeral gives (0 when the
\* paragraph does not match r'([IVXLCDM]+)\.\s*(.+)' or its text has 30
\* characters or fewer), the chapter of the anchor found above it (0 when none
\* is found), and the references of the links of the <em> that follows.
Paragraph(n, a, rs) == [number |-> n, anchor |-> a, proof_refs |-> rs]

\* A section as it is appended to chapters_data[current_chapter].
Section(c, n, rs) == [chapter |-> c, number |-> n, proof_refs |-> rs]

\* list(set(proof_refs)): the distinct references, in the order the set
\* iterates them. The order follows the hashes of the strings, which Python
\* draws anew for every process: any order of the distinct references.
ListOfSet(rs) ==
    {q \in SeqsOfLen(Range(rs), Cardinality(Range(rs))) : Range(q) = Range(rs)}

RECURSIVE ChaptersData(_, _, _)
\* "for para in all_paragraphs": every value chapters_data may end with, as
\* the sections in the order they were appended. current_chapter keeps its
\* value when no anchor is found above a paragraph.
ChaptersData(ps, current_chapter, data) ==
    IF ps = <<>> THEN {data}
    ELSE LET para == Head(ps)
             chapter == IF para.anchor # 0 THEN para.anchor ELSE current_chapter
         IN  IF para.number = 0 THEN ChaptersData(Tail(ps), current_chapter, data)
             ELSE IF chapter = 0 THEN ChaptersData(Tail(ps), chapter, data)
             ELSE UNION {ChaptersData(Tail(ps), chapter,
                                      Append(data, Section(chapter, para.number, rs)))
                         : rs \in ListOfSet(para.proof_refs)}

RECURSIVE InsertByNumber(_, _)
\* sorted(..., key=lambda x: x['number']) is stable.
InsertByNumber(q, x) ==
    IF q = <<>> THEN <<x>>
    ELSE IF q[Len(q)].number <= x.number THEN Append(q, x)
    ELSE Append(InsertByNumber(SubSeq(q, 1, Len(q) - 1), x), q[Len(q)])

RECURSIVE SectionsOf(_, _)
\* sorted(chapters_data[chapter_num], key=number)
SectionsOf(data, c) ==
    IF data = <<>> THEN <<>>
    ELSE LET x == data[Len(data)]
             before == SectionsOf(SubSeq(data, 1, Len(data) - 1), c)
         IN  IF x.chapter = c
             THEN InsertByNumber(before, [number |-> x.number, proof_refs |-> x.proof_refs])
             ELSE before

\* "Only first 33 chapters"
LastChapter == 33

\* "Create final chapters list"
FinalChapters(data) ==
    LET nums == SortedSeq({c \in {data[i].chapter : i \in 1..Len(data)} : c <= LastChapter})
    IN  [k \in 1..Len(nums) |-> [number |-> nums[k], sections |-> SectionsOf(data, nums[k])]]

\* Every list of chapters _extract_all_chapters may return for the page.
extract_all_chapters(ps) == {FinalChapters(d) : d \in ChaptersData(ps, 0, <<>>)}

\* A question of the document: its number and the spans of its answer.
DocQuestion(n, ss) == [question |-> n, spans |-> ss]

\* First pass: question_pages, keyed by the question numbers; second pass:
\* "for question_num in sorted(question_pages.keys())".
extract_multi_page_catechism(ds) ==
    LET nums == SortedSeq({ds[i].question : i \in 1..Len(ds)})
    IN  [k \in 1..Len(nums) |->
            LET d == CHOOSE d \in Range(ds) : d.question = nums[k]
            IN  [question |-> nums[k],
                 answer |-> AnswerOf(d.spans),
                 clauses |-> extract_clauses_from_spans(MultiPage, d.spans)]]

PageRefs == {<<>>, <<<<"R", "o", "m", " ", "1", ":", "2">>, <<"P", "s", " ", "2", ":", "1">>,
                     <<"R", "o", "m", " ", "1", ":", "2">>>>}

ParagraphKinds ==
    {Paragraph(n, a, rs) : n \in 0..2, a \in {0, 1, LastChapter + 1}, rs \in PageRefs}

Documents ==
    {ds \in SeqsUpTo({DocQuestion(n, ss) : n \in 1..MaxDocQuestions,
                                            ss \in SeqsUpTo(SpanKinds, 1)},
                     MaxDocQuestions) :
        \A i, j \in 1..Len(ds) : ds[i].question = ds[j].question => i = j}

\* ---- WestminsterScraper._extract_all_chapters
ExtractAllChapters ==
    /\ escript = ScraperComplete
    /\ Len(runs) < MaxRuns
    /\ \E chapters \in extract_all_chapters(paragraphs) :
          runs' = Append(runs, chapters)
    /\ UNCHANGED <<escript, paragraphs, estreams>>
    /\ UNCHANGED <<rateVars, segVars, mainVars, bindVars, tableVars, lookVars>>
    /\ UNCHANGED <<combineVars, normVars, formatVars, fixVars, pageVars>>

\* ---- extract_multi_page_catechism
ExtractMultiPage ==
    /\ escript = MultiPage
    /\ Len(runs) < MaxRuns
    /\ runs' = Append(runs, extract_multi_page_catechism(estreams))
    /\ UNCHANGED <<escript, paragraphs, estreams>>
    /\ UNCHANGED <<rateVars, segVars, mainVars, bindVars, tableVars, lookVars>>
    /\ UNCHANGED <<combineVars, normVars, formatVars, fixVars, pageVars>>

InitTwice ==
    /\ RateIdle
    /\ SegIdle
    /\ MainIdle
    /\ BindIdle
    /\ TableIdle
    /\ LookIdle
    /\ CombineIdle
    /\ NormIdle
    /\ FormatIdle
    /\ FixIdle
    /\ PageIdle
    /\ runs = <<>>
    /\ \/ /\ escript = ScraperComplete
          /\ paragraphs \in SeqsUpTo(ParagraphKinds, MaxParagraphs)
          /\ estreams = <<>>
       \/ /\ escript = MultiPage
          /\ paragraphs = <<>>
          /\ estreams \in Documents

NextTwice == ExtractAllChapters \/ ExtractMultiPage

SpecTwice == InitTwice /\ [][NextTwice]_vars

-----------------------------------------------------------------------------
(* test_verse_formatting.py, complete_westminster_confession.py and          *)
(* westminster_confession_scraper.py: how get_verse_text builds its result   *)
(* from the answer of the API.                                               *)

TestVerseFormatting == "test_verse_formatting"
FormatScripts == {TestVerseFormatting, CompleteConfession, ConfessionScraper}

\* One entry of data['verses'].
Verse(n, t) == [verse |-> n, text |-> t]

\* The JSON of an answer: data['verses'] and data['text'].
ApiData(vs, t) == [verses |-> vs, text |-> t]

\* "return '-' in reference and ',' not in reference"
is_consecutive_range(reference) ==
    Contains(reference, <<"-">>) /\ ~Contains(reference, <<",">>)

\* f"[{verse_num}] {verse_text}"
Labelled(v) == <<"[">> \o StrOf(v.verse) \o <<"]", Space>> \o Strip(v.text)

\* westminster_confession_scraper never asks whether the reference is a
\* range; the other two do.
AsksConsecutive(sc, reference) ==
    sc # ConfessionScraper /\ is_consecutive_range(reference)

\* "for verse in data['verses']"
verse_texts(sc, reference, vs) ==
    [i \in 1..Len(vs) |->
        IF AsksConsecutive(sc, reference) \/ Len(vs) > 1
        THEN Labelled(vs[i])
        ELSE Strip(vs[i].text)]

\* " | "
PipeSeparator == <<" ", "|", " ">>

\* The result of get_verse_text once the request has succeeded.
FormattedResult(sc, reference, data) ==
    IF data.verses # <<>>
    THEN JoinWith(verse_texts(sc, reference, data.verses),
                  IF AsksConsecutive(sc, reference) THEN <<Space>> ELSE PipeSeparator)
    ELSE Strip(data.text)

\* The references of the test cases, and two with a comma.
FormatReferences ==
    {<<"R", "o", "m", "a", "n", "s", " ", "1", ":", "1", "9", "-", "2", "0">>, <<"R", "o", "m", "a", "n", "s", " ", "1", ":", "1", "9">>, <<"M", "a", "t", "t", "h", "e", "w", " ", "5", ":", "1", "1", ",", " ", "1", "7">>, <<"M", "a", "t", "t", "h", "e", "w", " ", "5", ":", "3", "-", "5", ",", " ", "9">>}

FirstVerse == 19

VerseTexts == {<<"B", "e", "c", "a", "u", "s", "e", " ", "t", "h", "a", "t", " ">>, <<"F", "o", "r", " ", "t", "h", "e">>}

VerseKinds == {Verse(n, t) : n \in FirstVerse..(FirstVerse + 1), t \in VerseTexts}

ApiAnswers ==
    {ApiData(vs, <<>>) : vs \in SeqsUpTo(VerseKinds, MaxVerses) \ {<<>>}}
    \cup {ApiData(<<>>, t) : t \in VerseTexts \cup {<<>>}}

\* ---- BibleAPIFetcher.get_verse_text, from data = response.json() on
FormatVerses(sc) ==
    /\ fscript = "none"
    /\ fscript' = sc
    /\ fresult' = FormattedResult(sc, freference, fdata)
    /\ UNCHANGED <<freference, fdata>>
    /\ UNCHANGED <<rateVars, segVars, mainVars, bindVars, tableVars, lookVars>>
    /\ UNCHANGED <<combineVars, normVars, twiceVars, fixVars, pageVars>>

InitFormat ==
    /\ RateIdle
    /\ SegIdle
    /\ MainIdle
    /\ BindIdle
    /\ TableIdle
    /\ LookIdle
    /\ CombineIdle
    /\ NormIdle
    /\ TwiceIdle
    /\ FixIdle
    /\ PageIdle
    /\ fscript = "none"
    /\ freference \in FormatReferences
    /\ fdata \in ApiAnswers
    /\ fresult = <<>>

NextFormat == \E sc \in FormatScripts : FormatVerses(sc)

SpecFormat == InitFormat /\ [][NextFormat]_vars

-----------------------------------------------------------------------------
(* fix_proof_texts.py: ProofTextFixer.process_question, and                  *)
(* fix_proof_texts_final.py: WestminsterProofTextFixer.process_question.     *)

FixProofTexts == "fix_proof_texts"
FixProofTextsFinal == "fix_proof_texts_final"
FixerScripts == {FixProofTexts, FixProofTextsFinal}

\* r'(?<=[\.\,\;\:])\s*(\d+)': the run of digits follows one of . , ; : and
\* any spaces after it.
RECURSIVE AfterPunctuation(_, _)
AfterPunctuation(t, i) ==
    IF i < 1 THEN FALSE
    ELSE IF t[i] = Space THEN AfterPunctuation(t, i - 1)
    ELSE t[i] \in {".", ",", ";", ":"}

\* r'(\d+)(?=\s*[,.!?]|\s*$)': the run of digits is followed, after any
\* spaces, by one of , . ! ? or by the end of the answer.
RECURSIVE BeforePunctuation(_, _)
BeforePunctuation(t, i) ==
    IF i > Len(t) THEN TRUE
    ELSE IF t[i] = Space THEN BeforePunctuation(t, i + 1)
    ELSE t[i] \in {",", ".", "!", "?"}

\* "Valid footnote range"
LastFootnote == 227

\* extract_endnote_markers of the script, as the list of marker numbers.
FixerMarkers(sc, t) ==
    LET Keep(r) ==
            IF sc = FixProofTexts
            THEN AfterPunctuation(t, r.start - 1)
            ELSE /\ BeforePunctuation(t, r.end)
                 /\ RunValue(t, r) >= 1
                 /\ RunValue(t, r) <= LastFootnote
    IN  RunValues(t, SelectSeq(DigitRuns(t), Keep), 1)

\* A dict keeps its keys in the order of their first insertion; assigning to
\* a key it has keeps the key's place.
DictSet(d, k, v) ==
    IF \E i \in 1..Len(d) : d[i].key = k
    THEN [i \in 1..Len(d) |-> IF d[i].key = k THEN [key |-> k, value |-> v] ELSE d[i]]
    ELSE Append(d, [key |-> k, value |-> v])

RECURSIVE MarkerToClauseMap(_, _, _, _, _)
\* marker_to_clause_map, clause indexes counted from 0 as in the code.
MarkerToClauseMap(sc, markers, n, i, d) ==
    IF i > Len(markers) THEN d
    ELSE LET at == i - 1
             idx == IF sc = FixProofTexts
                    THEN IF Len(markers) <= n THEN at
                         ELSE IF at < n - 1 THEN at ELSE n - 1
                    ELSE IF Len(markers) = n THEN at
                         ELSE IF at < n THEN at ELSE n - 1
         IN  MarkerToClauseMap(sc, markers, n, i + 1, DictSet(d, markers[i], idx))

\* The footnotes the fixers read from the PDF: the references of a footnote.
FixerFootnotes ==
    [n \in {1, 2} |-> IF n = 1 THEN <<<<"R", "o", "m", "a", "n", "s", " ", "1", ":", "2">>>> ELSE <<<<"P", "s", "a", "l", "m", " ", "2", ":", "1">>>>]

\* get_scripture_text: the text of the KJV data, None when the verse is not
\* found.
get_scripture_text(reference) ==
    IF reference = <<"R", "o", "m", "a", "n", "s", " ", "1", ":", "2">> THEN <<"W", "h", "i", "c", "h", " ", "h", "e", " ", "h", "a", "d", " ", "p", "r", "o", "m", "i", "s", "e", "d">> ELSE NoVerse

\* "ERROR: Scripture text not found"
ScriptureNotFound == <<"E", "R", "R", "O", "R", ":", " ", "S", "c", "r", "i", "p", "t", "u", "r", "e", " ", "t", "e", "x", "t", " ", "n", "o", "t", " ", "f", "o", "u", "n", "d">>

\* The proof texts fix_proof_texts makes for a footnote:
\* "references = footnotes.get(footnote_num, [])".
FixerProofTexts(n) ==
    LET cited == IF n \in DOMAIN FixerFootnotes THEN FixerFootnotes[n] ELSE <<>>
    IN  [i \in 1..Len(cited) |->
            LET scripture_text == get_scripture_text(cited[i])
            IN  ProofText(cited[i],
                          IF HasText(scripture_text) THEN scripture_text
                          ELSE ScriptureNotFound)]

\* The proof texts fix_proof_texts_final has for a footnote: what
\* extract_footnotes_from_end gave, or the entry that names the footnote.
FinalProofTexts(n) ==
    IF n \in DOMAIN FixerFootnotes
    THEN [i \in 1..Len(FixerFootnotes[n]) |->
             ProofText(FixerFootnotes[n][i], <<"S", "c", "r", "i", "p", "t", "u", "r", "e", " ", "t", "e", "x", "t", " ", "f", "o", "r", " ">> \o FixerFootnotes[n][i])]
    ELSE <<ProofText(<<"E", "R", "R", "O", "R", ":", " ", "F", "o", "o", "t", "n", "o", "t", "e", " ">> \o StrOf(n) \o <<" ", "n", "o", "t", " ", "f", "o", "u", "n", "d">>,
                     <<"F", "o", "o", "t", "n", "o", "t", "e", " ">> \o StrOf(n) \o <<" ", "n", "o", "t", " ", "f", "o", "u", "n", "d", " ", "i", "n", " ", "e", "x", "t", "r", "a", "c", "t", "e", "d", " ", "f", "o", "o", "t", "n", "o", "t", "e", "s">>)>>

FixedClause(t, n, pts) == [text |-> t, footnoteNum |-> n, proofTexts |-> pts]

\* "Process each clause" of fix_proof_texts: the first marker of the map
\* that was assigned to the clause.
FixClause(clause, idx, d) ==
    LET clause_markers == SelectSeq(d, LAMBDA e : e.value = idx)
    IN  IF clause_markers = <<>>
        THEN [clause EXCEPT !.proofTexts = <<>>]
        ELSE FixedClause(clause.text, clause_markers[1].key,
                         FixerProofTexts(clause_markers[1].key))

RECURSIVE FinalUpdate(_, _, _)
\* "Update clauses with footnote numbers and proof texts" of
\* fix_proof_texts_final; clauses[-1] of an empty list raises IndexError.
FinalUpdate(cs, d, i) ==
    IF i > Len(d) THEN cs
    ELSE IF d[i].value >= Len(cs) THEN FinalUpdate(cs, d, i + 1)
    ELSE IF cs = <<>> THEN Raised
    ELSE LET at == IF d[i].value < 0 THEN Len(cs) + d[i].value + 1 ELSE d[i].value + 1
         IN  FinalUpdate([cs EXCEPT ![at] = FixedClause(cs[at].text, d[i].key,
                                                        FinalProofTexts(d[i].key))],
                         d, i + 1)

\* process_question: the clauses of the question it returns.
process_question(sc, t, cs) ==
    LET markers == FixerMarkers(sc, t)
        d == MarkerToClauseMap(sc, markers, Len(cs), 1, <<>>)
    IN  IF markers = <<>> THEN cs
        ELSE IF sc = FixProofTexts
        THEN [i \in 1..Len(cs) |-> FixClause(cs[i], i - 1, d)]
        ELSE FinalUpdate(cs, d, 1)

\* The pieces the modelled answers are made of.
AnswerPieces == {<<"a", ",", "1", ".">>, <<"a", ",", "2", ".">>, <<";", "3", " ", "b">>, <<"b", " ", "4">>}

FixerAnswers == {Concat(ps) : ps \in SeqsUpTo(AnswerPieces, MaxPieces)}

\* The clauses of the question as the input file has them.
LoadedClauses(n) == [i \in 1..n |-> FixedClause(<<"b">>, NoFootnote, <<>>)]

\* ---- process_question
ProcessQuestion(sc) ==
    /\ pscript = "none"
    /\ pscript' = sc
    /\ presult' = process_question(sc, panswer, pclauses)
    /\ UNCHANGED <<panswer, pclauses>>
    /\ UNCHANGED <<rateVars, segVars, mainVars, bindVars, tableVars, lookVars>>
    /\ UNCHANGED <<combineVars, normVars, twiceVars, formatVars, pageVars>>

InitFix ==
    /\ RateIdle
    /\ SegIdle
    /\ MainIdle
    /\ BindIdle
    /\ TableIdle
    /\ LookIdle
    /\ CombineIdle
    /\ NormIdle
    /\ TwiceIdle
    /\ FormatIdle
    /\ PageIdle
    /\ pscript = "none"
    /\ panswer \in FixerAnswers
    /\ pclauses \in {LoadedClauses(n) : n \in 0..MaxFixClauses}
    /\ presult = <<>>

NextFix == \E sc \in FixerScripts : ProcessQuestion(sc)

SpecFix == InitFix /\ [][NextFix]_vars

-----------------------------------------------------------------------------
(* extract_multi_page_catechism.py: extract_question_multi_page, and         *)
(* extract_complete_catechism.py: extract_question_complete; the lines of   *)
(* the answer of one question, from the spans of the page to the clauses.   *)

ExtractComplete == "extract_complete_catechism"
PageScripts == {MultiPage, ExtractComplete}

\* A size between the two tests, 9.2pt.
MiddleSize == 92

\* "if text.isdigit() and font_size >= 9.5: continue", on the stripped text
SkippedAsPageNumber(span) ==
    IsDigit(Strip(span.text)) /\ span.font_size >= PageNumberSizeLimit

RECURSIVE LineSpans(_)
\* line_spans of the lines of the answer: the spans that are not skipped,
\* with their text stripped.
LineSpans(ss) ==
    IF ss = <<>> THEN <<>>
    ELSE (IF SkippedAsPageNumber(ss[1]) THEN <<>>
          ELSE <<Span(Strip(ss[1].text), ss[1].font_size)>>)
         \o LineSpans(Tail(ss))

\* The spans a page can hold: body text, and a number at each size the two
\* tests tell apart.
PageSpanKinds ==
    { Span(<<"a">>, BodySize), Span(<<"7", Space>>, SmallSize),
      Span(<<"7">>, FootnoteSizeLimit), Span(<<"7">>, MiddleSize),
      Span(<<"7">>, PageNumberSizeLimit), Span(<<"7">>, BodySize) }

\* ---- extract_question_multi_page / extract_question_complete, once the
\* question is found: all_spans, then the clauses.
ExtractQuestion(sc) ==
    /\ gscript = "none"
    /\ gscript' = sc
    /\ gspans' = LineSpans(gline)
    /\ gclauses' = extract_clauses_from_spans(MultiPage, LineSpans(gline))
    /\ UNCHANGED gline
    /\ UNCHANGED <<rateVars, segVars, mainVars, bindVars, tableVars, lookVars>>
    /\ UNCHANGED <<combineVars, normVars, twiceVars, formatVars, fixVars>>

InitPage ==
    /\ RateIdle
    /\ SegIdle
    /\ MainIdle
    /\ BindIdle
    /\ TableIdle
    /\ LookIdle
    /\ CombineIdle
    /\ NormIdle
    /\ TwiceIdle
    /\ FormatIdle
    /\ FixIdle
    /\ gscript = "none"
    /\ gline \in SeqsUpTo(PageSpanKinds, MaxPageSpans)
    /\ gspans = <<>>
    /\ gclauses = <<>>

NextPage == \E sc \in PageScripts : ExtractQuestion(sc)

SpecPage == InitPage /\ [][NextPage]_vars

-----------------------------------------------------------------------------
(* What the claims about segmentation speak of: the token stream is the     *)
(* answer's spans, its markers are the footnote spans.                      *)

Last(q) == q[Len(q)]

EndsWith(t, suffix) ==
    Len(suffix) <= Len(t) /\ SubSeq(t, Len(t) - Len(suffix) + 1, Len(t)) = suffix

MarkerIndexes(ss) == {i \in 1..Len(ss) : IsFootnoteSpan(ss[i])}

MaxOf(S) == CHOOSE m \in S : \A x \in S : x <= m

LastMarkerIndex(ss) == MaxOf(MarkerIndexes(ss))

RECURSIVE BodyTexts(_)
\* The texts of the body tokens, in stream order.
BodyTexts(ss) ==
    IF ss = <<>> THEN <<>>
    ELSE (IF IsFootnoteSpan(ss[1]) THEN <<>> ELSE <<ss[1].text>>) \o BodyTexts(Tail(ss))

\* The body text after the last marker.
TrailingBody(ss) ==
    clean_text(JoinWithSpace(BodyTexts(SubSeq(ss, LastMarkerIndex(ss) + 1, Len(ss)))))

ClauseTexts(cs) == [i \in 1..Len(cs) |-> cs[i].text]
ClauseFootnotes(cs) == [i \in 1..Len(cs) |-> cs[i].footnote]

RECURSIVE WordsOf(_)
\* The words of a text, split at spaces, without the words that are numbers.
WordsOf(t) ==
    IF t = <<>> THEN <<>>
    ELSE IF t[1] = Space THEN WordsOf(Tail(t))
    ELSE LET n == CHOOSE k \in 1..Len(t) :
                    /\ \A j \in 1..k : t[j] # Space
                    /\ (k = Len(t) \/ t[k + 1] = Space)
             w == SubSeq(t, 1, n)
         IN  (IF IsDigit(w) THEN <<>> ELSE <<w>>) \o WordsOf(SubSeq(t, n + 1, Len(t)))

SegDone(sc) == segpc = "done" /\ script = sc

\* C4: at the end of the stream, non-empty body text left after the last
\* marker is emitted as a separate final clause whose footnote is null.
C4_TrailingTextIsNullClause ==
    (/\ segpc = "done"
     /\ script \in {ShorterNoRefs, ExtractLarger, FixV2}
     /\ MarkerIndexes(spans) # {}
     /\ TrailingBody(spans) # <<>>)
    => (/\ Len(clauses) >= 2
        /\ Last(clauses) = Clause(TrailingBody(spans), NoFootnote))

\* C4, amended: only the fix_proof_texts_v2 splitter ends with a separate
\* null-footnote clause holding the trailing text; the span segmenter of
\* create_shorter_catechism_no_references emits the trailing text as a
\* separate final clause that carries the last marker's number, and
\* extract_larger_catechism_clauses appends it to the last marker's clause.
C4_TrailingTextPerScript ==
    (/\ segpc = "done"
     /\ MarkerIndexes(spans) # {}
     /\ TrailingBody(spans) # <<>>)
    => LET last_marker == IntOf(spans[LastMarkerIndex(spans)].text)
       IN  /\ script = FixV2 =>
                /\ Len(clauses) >= 2
                /\ Last(clauses).footnote = NoFootnote
                /\ EndsWith(Last(clauses).text, TrailingBody(spans))
           /\ script = ShorterNoRefs =>
                Last(clauses) = Clause(TrailingBody(spans), last_marker)
           /\ script = ExtractLarger =>
                /\ Last(clauses).footnote = last_marker
                /\ EndsWith(Last(clauses).text,
                            StrOf(last_marker) \o <<Space>> \o TrailingBody(spans))
                /\ Len(clauses) = Cardinality(MarkerIndexes(spans))

C4_Witness ==
    /\ SegDone(FixV2)
    /\ MarkerIndexes(spans) # {}
    /\ TrailingBody(spans) # <<>>
    /\ Len(clauses) = 2
    /\ Last(clauses) = Clause(TrailingBody(spans), NoFootnote)

\* The stream [body, MARKER(1), body, MARKER(2), body].
IsBodySpan(sp) == sp.font_size = BodySize /\ sp.text \in {<<"a">>, <<"b">>}
ExampleStream ==
    /\ Len(spans) = 5
    /\ IsBodySpan(spans[1]) /\ IsBodySpan(spans[3]) /\ IsBodySpan(spans[5])
    /\ spans[2] = Span(<<"1">>, SmallSize)
    /\ spans[4] = Span(<<"2">>, SmallSize)

\* C5: for [body, MARKER(1), body, MARKER(2), body] the segmenter produces
\* exactly two clauses, numbered 1 and 2 in that order; the text after
\* MARKER(2) belongs to the second clause and no clause has a null footnote.
C5_ExampleGivesTwoClauses ==
    (/\ segpc = "done"
     /\ script \in {ExtractLarger, MultiPage, FixV2}
     /\ ExampleStream)
    => (/\ ClauseFootnotes(clauses) = <<1, 2>>
        /\ EndsWith(clauses[2].text, spans[5].text))

\* C5, amended: split_answer_into_clauses of extract_larger_catechism_clauses
\* produces exactly these two clauses (each text keeps its number, the
\* trailing text is appended to the second); extract_clauses_from_spans of
\* extract_multi_page_catechism and split_answer_into_clauses of
\* fix_proof_texts_v2 produce three clauses, numbered null, 1, 2 and
\* 1, 2, null.
C5_ExamplePerScript ==
    (segpc = "done" /\ ExampleStream)
    => LET b1 == spans[1].text
           b2 == spans[3].text
           b3 == spans[5].text
       IN  /\ script = ExtractLarger =>
                clauses = << Clause(b1 \o <<" ", "1">>, 1),
                             Clause(b2 \o <<" ", "2", " ">> \o b3, 2) >>
           /\ script = MultiPage =>
                clauses = <<Clause(b1, NoFootnote), Clause(b2, 1), Clause(b3, 2)>>
           /\ script = FixV2 =>
                clauses = <<Clause(b1, 1), Clause(b2, 2), Clause(b3, NoFootnote)>>

C5_Witness ==
    /\ SegDone(ExtractLarger)
    /\ ExampleStream
    /\ ClauseFootnotes(clauses) = <<1, 2>>
    /\ EndsWith(clauses[2].text, spans[5].text)

\* C6: clauses are emitted in stream order and their texts, concatenated,
\* are the body tokens of the stream: no body text is dropped, duplicated or
\* reordered. (Words that are numbers are left out on both sides, so that a
\* clause text that keeps its footnote number is not counted as a change.)
C6_NoBodyTextLost ==
    (segpc = "done" /\ script \in {MultiPage, VerifyProcessing, FixLarger})
    => WordsOf(JoinWithSpace(ClauseTexts(clauses)))
         = WordsOf(JoinWithSpace(BodyTexts(spans)))

C9_NullFootnoteEmptyList ==
    (bindpc = "done" /\ bscript \in {AddReferences, UpdateCatechism, FixV2})
    => \A i \in 1..Len(bclauses) :
          bclauses[i].footnote = NoFootnote
          => bclauses[i].proofTexts = <<>>

IsMissing(n) == n # NoFootnote /\ n \notin DOMAIN references

RestStillBound ==
    \A i \in 1..Len(bclauses) :
        bclauses[i].footnote \in DOMAIN references
        => bclauses[i].proofTexts = references[bclauses[i].footnote]

\* C10: a clause whose footnote number is missing from the table gets a single
\* sentinel proof text whose reference is "NOT FOUND" and whose text is a
\* diagnostic message, and the rest of the document is still bound.
C10_MissingGetsNotFoundSentinel ==
    (bindpc = "done" /\ bscript \in {FixV5, AddReferences, UpdateCatechism})
    => /\ \A i \in 1..Len(bclauses) :
             IsMissing(bclauses[i].footnote)
             => /\ Len(bclauses[i].proofTexts) = 1
                /\ bclauses[i].proofTexts[1].reference = "NOT FOUND"
       /\ RestStillBound

\* C10, amended: for a missing footnote number n, populate_proof_texts of
\* fix_proof_texts_v5 attaches the single proof text with reference
\* "ERROR: Footnote not found" and text "Footnote n not found in extracted
\* footnotes" (an empty list when n is 0); add_references_to_catechism and
\* update_catechism_with_references attach an empty list, the latter listing n
\* as missing. In all three the clauses whose footnote is in the table are
\* bound to its entry.
C10_MissingPerScript ==
    (bindpc = "done" /\ bscript \in {FixV5, AddReferences, UpdateCatechism})
    => /\ \A i \in 1..Len(bclauses) :
             LET n == bclauses[i].footnote
                 pts == bclauses[i].proofTexts
             IN  IsMissing(n)
                 => /\ (bscript = FixV5 /\ n # 0) =>
                          pts = << [reference |-> "ERROR: Footnote not found",
                                    text |-> <<"Footnote ">> \o StrOf(n)
                                               \o <<" not found in extracted footnotes">>] >>
                    /\ (bscript = FixV5 /\ n = 0) => pts = <<>>
                    /\ bscript \in {AddReferences, UpdateCatechism} => pts = <<>>
                    /\ bscript = UpdateCatechism =>
                          \E j \in 1..Len(missing_footnotes) : missing_footnotes[j] = n
       /\ RestStillBound

C10_Witness ==
    /\ bindpc = "done"
    /\ bscript = FixV5
    /\ \E i, j \in 1..Len(bclauses) :
          /\ IsMissing(bclauses[i].footnote)
          /\ bclauses[i].footnote # 0
          /\ Len(bclauses[i].proofTexts) = 1
          /\ bclauses[i].proofTexts[1].reference = "ERROR: Footnote not found"
          /\ bclauses[j].footnote \in DOMAIN references
          /\ bclauses[j].proofTexts = <<VerseOfRomans>>

\* A check of the run has failed: a verification returned False or raised,
\* or fix_all_proof_texts found footnotes missing from the table.
CheckFailed ==
    \/ mscript \in {ExtractLarger, SimpleExtractor} /\ failed # "none"
    \/ mscript = FixV5 /\ output.missing_footnotes # <<>>

RoundTrip(a, cs) == clean_text(JoinWithSpace(ClauseTextsOf(cs))) = clean_text(a)

C7_ClauseTextsRebuildAnswer ==
    (output.written /\ mscript \in {ExtractLarger, MultiPage})
    => \A i \in 1..Len(output.questions) :
          RoundTrip(output.questions[i].answer, output.questions[i].clauses)

\* C3: when the segmenter meets a footnote marker with value n, the text
\* accumulated since the previous boundary is emitted as one clause whose
\* footnote number is n, and the buffer is reset.
C3_MarkerClosesClauseWithItsNumber ==
    [][(/\ segpc = "loop"
        /\ script \in SpanScripts
        /\ pos <= Len(spans)
        /\ IsFootnoteSpan(spans[pos])
        /\ Strip(current_clause) # <<>>)
       => (/\ clauses' = Append(clauses, Clause(clean_text(current_clause),
                                                IntOf(spans[pos].text)))
           /\ current_clause' = <<>>)]_vars

\* C1: no 30-second window of time contains more than 14 remote requests:
\* of any 15 consecutive requests, the last is at least 30 seconds after the
\* first.
C1_AtMost14PerWindow ==
    Len(sent) = SentKept => sent[SentKept] - sent[1] >= RateWindow * PerSecond

-----------------------------------------------------------------------------
(* What the claims about the footnote table speak of *)

\* The marker test of the script that runs.
IsMarkerOf(sc, span) ==
    IF sc = ShorterClean THEN IsCleanMarker(span) ELSE IsMarkerFor(sc, span)

\* The indexes of the spans that are markers of footnote n.
MarkersOfNumber(sc, ss, n) ==
    {i \in 1..Len(ss) : IsMarkerOf(sc, ss[i]) /\ IntOf(Strip(ss[i].text)) = n}

\* The footnote numbers the script meets in the section.
NumbersMet(sc, ss) ==
    {IntOf(Strip(ss[i].text)) : i \in {j \in 1..Len(ss) : IsMarkerOf(sc, ss[j])}}

\* The numbers met more than once.
NumbersMetTwice(sc, ss) ==
    {n \in NumbersMet(sc, ss) : Cardinality(MarkersOfNumber(sc, ss, n)) > 1}

\* The spans of the entry that starts at marker index i: those up to the next
\* marker.
EntryStream(sc, ss, i) ==
    LET later == {j \in (i + 1)..Len(ss) : IsMarkerOf(sc, ss[j])}
        stop == IF later = {} THEN Len(ss) + 1
                ELSE CHOOSE j \in later : \A k \in later : j <= k
    IN  SubSeq(ss, i + 1, stop - 1)

\* The entry of footnote n that the table holds at the end: the last one met
\* by the scripts that assign entry after entry, the first one found by step 3.
EntryOfNumber(sc, ss, n) ==
    LET at == MarkersOfNumber(sc, ss, n)
    IN  EntryStream(sc, ss, IF sc = ShorterClean
                            THEN CHOOSE i \in at : \A j \in at : i <= j
                            ELSE MaxOf(at))

\* A reference token, and a token of scripture text, as the script tells them.
IsRefToken(sc, span) ==
    IF sc = ShorterClean THEN span.font = "Times-Bold"
    ELSE is_bold(span) /\ re_match(REFERENCE_REGEX, Strip(span.text))

\* REF, BODY, REF, BODY, ...: at least one pair.
IsAlternating(sc, es) ==
    /\ Len(es) >= 2
    /\ Len(es) % 2 = 0
    /\ \A i \in 1..Len(es) : IsRefToken(sc, es[i]) <=> (i % 2 = 1)

\* A text without the spaces around it and the periods that end it.
Canon(t) == RStripDot(Strip(t))

\* A span that is a page number: digits only, 9.5pt or more.
IsPageNumber(span) ==
    IsDigit(Strip(span.text)) /\ span.font_size >= PageNumberSizeLimit

\* C11: a run that builds the footnote table of a section with footnotes
\* accepts the table only if the footnote numbers it met are exactly 1..N;
\* when a number of 1..N is missing the run fails and reports the missing
\* numbers; and no number that was not met is given an entry.
C11_ExactRangeOrMissingReported ==
    (/\ tpc = "done"
     /\ tscript \in {LargerReferences, ShorterClean}
     /\ NumbersMet(tscript, tspans) # {})
    => LET met == NumbersMet(tscript, tspans)
           missing == FOOTNOTE_RANGE \ met
       IN  /\ tresult.status = "written" => met = FOOTNOTE_RANGE
           /\ missing # {} => /\ tresult.status = "failed"
                              /\ tresult.error.numbers = missing
           /\ DOMAIN tresult.table \subseteq met

\* C12: in a section without page numbers, when a footnote number is met a
\* second time the run fails and reports that number, and no step replaces an
\* entry the table already has.
C12_DuplicateFailsNothingOverwritten ==
    [][(/\ tscript \in {LargerReferences, ProofTextsClean}
        /\ \A i \in 1..Len(tspans) : ~IsPageNumber(tspans[i]))
       => (/\ \A n \in DOMAIN refs : (n \in DOMAIN refs' /\ refs'[n] = refs[n])
           /\ (tpc' = "done" /\ NumbersMetTwice(tscript, tspans) # {})
              => (/\ tresult'.status = "failed"
                  /\ NumbersMetTwice(tscript, tspans) \subseteq tresult'.error.numbers))]_vars

\* C14: an entry whose spans are REF, BODY, REF, BODY, ... gives one proof
\* text for each pair, in the order of the stream, the reference of each being
\* the REF token and its text the BODY token that follows it.
C14_ReferenceClosesPair ==
    (tpc = "done" /\ tscript \in {LargerReferences, ShorterClean})
    => \A n \in DOMAIN refs :
          LET es == EntryOfNumber(tscript, tspans, n)
          IN  IsAlternating(tscript, es)
              => /\ Len(refs[n]) = Len(es) \div 2
                 /\ \A i \in 1..Len(refs[n]) :
                       /\ Canon(refs[n][i].reference) = Canon(es[2 * i - 1].text)
                       /\ refs[n][i].text = Strip(es[2 * i].text)

\* process_footnote_spans has turned an entry REF, BODY, REF, BODY into two
\* proof texts.
C14_Witness ==
    /\ tpc = "done"
    /\ tscript = LargerReferences
    /\ \E n \in DOMAIN refs :
          /\ Len(EntryOfNumber(tscript, tspans, n)) = 4
          /\ IsAlternating(tscript, EntryOfNumber(tscript, tspans, n))
          /\ Len(refs[n]) = 2
          /\ refs[n][1].reference # refs[n][2].reference

\* C18, for the footnote table: a span that is a page number starts no
\* footnote entry and is kept in none.
C18_PageNumberStartsNothing ==
    [][(/\ tpc = "loop"
        /\ tscript = LargerReferences
        /\ tpos <= Len(tspans)
        /\ IsPageNumber(tspans[tpos]))
       => (/\ current_footnote_num' = current_footnote_num
           /\ current_footnote_spans' = current_footnote_spans)]_vars

-----------------------------------------------------------------------------
(* What the claims about footnote coverage speak of *)

\* The footnote numbers the clauses of the bound document carry.
ClauseNumbers == Range(FootnotesOfClauses(bclauses))

\* The clauses of the bound document as the document of one question, and as
\* a document of the expected number of questions.
AsOneQuestion == <<Question(<<>>, bclauses)>>
AsDocument ==
    [i \in 1..ExpectedQuestions |-> Question(<<>>, IF i = 1 THEN bclauses ELSE <<>>)]

-----------------------------------------------------------------------------
(* What the claims about scripture lookup speak of: a lookup is one entry   *)
(* of looked, a remote request one entry whose remote is TRUE.              *)

\* The lookups of a run that asked the remote API.
RemoteLookups == {i \in 1..Len(looked) : looked[i].remote}

\* C15: once a lookup of a reference has produced a result, every later
\* lookup of the same reference in the run returns the same result and asks
\* the remote API nothing; the requests sent are those of the lookups that
\* found nothing in the cache.
C15_LaterLookupsComeFromCache ==
    lscript \in {CompleteConfession, ConfessionScraper, ScraperComplete}
    => /\ \A i, j \in 1..Len(looked) :
             (i < j /\ looked[i].ref = looked[j].ref /\ looked[i].value # NoVerse)
             => (looked[j].value = looked[i].value /\ ~looked[j].remote)
       /\ nsent = Cardinality(RemoteLookups)

\* A reference was fetched from the API and then looked up again.
C15_Witness ==
    /\ lscript = CompleteConfession
    /\ Len(looked) = 2
    /\ looked[1].ref = looked[2].ref
    /\ looked[1].remote
    /\ HasText(looked[1].value)
    /\ ~looked[2].remote
    /\ looked[2].value = looked[1].value
    /\ nsent = 1

\* The placeholder a script writes for a reference whose lookup failed.
PlaceholderOf(sc, reference) ==
    IF sc = FetchScriptures THEN Bracketed(reference) ELSE CouldNotFetch

\* C16: a reference whose lookup failed is written with the placeholder text,
\* and every reference of the run is looked up and written, in order,
\* whatever the lookups before it gave: the loop has an entry for each
\* reference it has passed, and a run that ended has one for every reference.
C16_FailedLookupGetsPlaceholder ==
    (lscript \in {CompleteConfession, FetchScriptures} /\ lpc \in {"loop", "done"})
    => /\ Len(proof_texts) = lpos - 1
       /\ Len(looked) = lpos - 1
       /\ lpc = "done" => Len(proof_texts) = Len(citations)
       /\ \A i \in 1..Len(proof_texts) :
             /\ proof_texts[i].reference = citations[i]
             /\ looked[i].ref = citations[i]
             /\ proof_texts[i].text = IF HasText(looked[i].value) THEN looked[i].value
                                      ELSE PlaceholderOf(lscript, citations[i])

\* A run whose first lookup failed and whose second one gave a text, both
\* written.
C16_Witness ==
    /\ lscript = CompleteConfession
    /\ lpc = "done"
    /\ Len(proof_texts) = 2
    /\ looked[1].value = NoVerse
    /\ proof_texts[1].text = CouldNotFetch
    /\ HasText(looked[2].value)
    /\ proof_texts[2].text = looked[2].value

\* A citation that matches no reference pattern of the script.
Unmatched(sc, citation) ==
    CASE sc = FetchScriptures ->
           \E parsed \in {parse_reference(citation)} :
               parsed.kind = "None" \/ (parsed.kind = "list" /\ parsed.items = <<>>)
      [] sc = ConfessionScraper -> normalize_bible_reference(citation) = NoVerse
      [] sc = ScraperComplete -> ~re_match(ReLocal, Strip(citation))
      [] OTHER -> FALSE

\* The texts that flag a reference as not found.
Sentinels(reference) ==
    {Bracketed(reference), CouldNotFetch,
     Tagged(<<"R", "e", "f", "e", "r", "e", "n", "c", "e", " ", "n", "o", "t", " ", "f", "o", "u", "n", "d">>, reference),
     Tagged(<<"B", "i", "b", "l", "e", " ", "d", "a", "t", "a", " ", "n", "o", "t", " ", "l", "o", "a", "d", "e", "d">>, reference)}

\* C17: a citation that matches no known reference pattern has, in the
\* output of the run, an entry for that reference whose text is a sentinel.
C17_UnmatchedCitationGetsSentinel ==
    (lpc = "done" /\ lscript \in {FetchScriptures, ConfessionScraper, ScraperComplete})
    => \A i \in 1..Len(citations) :
          Unmatched(lscript, citations[i])
          => \E j \in 1..Len(proof_texts) :
                /\ proof_texts[j].reference = citations[i]
                /\ proof_texts[j].text \in Sentinels(citations[i])

-----------------------------------------------------------------------------
(* What the claims about list numbers and repeated markers speak of *)

\* A run of digits that a period follows at once: a list number.
FollowedByPeriod(t, r) == r.end <= Len(t) /\ t[r.end] = "."

\* The runs of digits of a text that are not list numbers.
MarkerRuns(t) ==
    LET Keep(r) == ~FollowedByPeriod(t, r)
    IN  SelectSeq(DigitRuns(t), Keep)

\* C19: a number that a period follows at once is no footnote marker for a
\* step that splits an answer at its footnote numbers: the footnotes of the
\* clauses are numbers of the answer that no period follows, and there are no
\* more of them than of such numbers.
C19_ListNumberIsNoMarker ==
    (segpc = "done" /\ script \in {ExtractLarger, VerifyProcessing})
    => /\ Len(FootnotesOfClauses(clauses)) <= Len(MarkerRuns(answer))
       /\ \A n \in Range(FootnotesOfClauses(clauses)) :
             \E i \in 1..Len(MarkerRuns(answer)) :
                RunValue(answer, MarkerRuns(answer)[i]) = n

\* The spans of an answer that are footnote numbers, in order.
AnswerMarkers(ss) == SelectSeq(ss, IsFootnoteSpan)

\* The questions of the document whose answer has a footnote number twice.
Repeating == {i \in 1..Len(streams) : HasDuplicates(AnswerMarkers(streams[i]))}

\* The footnote numbers of the answers, each as often as it stands there.
RECURSIVE AllMarkers(_)
AllMarkers(ds) ==
    IF ds = <<>> THEN <<>>
    ELSE [i \in 1..Len(AnswerMarkers(ds[1])) |-> IntOf(AnswerMarkers(ds[1])[i].text)]
         \o AllMarkers(Tail(ds))

\* A document that lacks nothing: the expected questions, and every footnote
\* number of the range in some answer.
NothingLacks ==
    /\ Len(streams) = ExpectedQuestions
    /\ Range(AllMarkers(streams)) = FOOTNOTE_RANGE

-----------------------------------------------------------------------------
(* What the claims about references speak of *)

\* A reference whose second part continues the first: a chapter and verse
\* after a book name, or punctuation after a book name and a number.
IsSplitReference(p, q) ==
    \/ re_match(ReBookName, p) /\ re_match(ReChapterVerse, q)
    \/ re_match(ReBookNumber, p) /\ EndsWithDigit(p) /\ q[1] \in {":", ",", "-"}

\* The two parts joined: no space before punctuation, one space otherwise.
JoinedParts(p, q) ==
    IF q[1] \in {":", ",", "-"} THEN p \o q ELSE p \o <<Space>> \o q

\* C21: a footnote whose bold spans are the two parts of a split reference
\* gives one reference, the parts joined with no space when the second
\* starts with ":", "," or "-" and with one space otherwise.
C21_SplitReferenceJoined ==
    (/\ jscript # "none"
     /\ Len(BoldTexts(jspans)) = 2
     /\ IsSplitReference(BoldTexts(jspans)[1], BoldTexts(jspans)[2]))
    => /\ Len(jrefs) = 1
       /\ jrefs[1].reference = JoinedParts(BoldTexts(jspans)[1], BoldTexts(jspans)[2])

\* The verse a cited reference names: book, chapter, verse; none for a range.
VerseNamed(r) ==
    IF r \in {<<"1", "C", "o", "r", ".", "1", ".", "2", "1">>, <<"1", " ", "C", "o", "r", "i", "n", "t", "h", "i", "a", "n", "s", " ", "1", ":", "2", "1">>, <<"1", "C", "o", "r", " ", "1", ":", "2", "1">>} THEN <<46, 1, 21>>
    ELSE IF r \in {<<"R", "o", "m", ".", "1", ".", "2">>, <<"R", "o", "m", "a", "n", "s", " ", "1", ":", "2">>, <<"R", "o", "m", " ", "1", ":", "2">>} THEN <<45, 1, 2>>
    ELSE <<>>

\* C22: two references that name the same verse are normalised to the same
\* citation; parse_reference resolves both to that book, chapter and verse.
C22_SameVerseSameCitation ==
    (/\ nfn # "none"
     /\ VerseNamed(nrefs[1]) # <<>>
     /\ VerseNamed(nrefs[1]) = VerseNamed(nrefs[2]))
    => /\ nout[1] = nout[2]
       /\ nfn = ParseReference
          => /\ nout[1].kind = "single_verse"
             /\ SubSeq(nout[1].nums, 1, 3) = VerseNamed(nrefs[1])

-----------------------------------------------------------------------------
\* C23: running an extraction twice on the same input produces identical
\* output, the order of every list included.
C23_SecondRunSameOutput ==
    Len(runs) >= 2 => runs[2] = runs[1]

-----------------------------------------------------------------------------
\* C24: for a reference with "-" and without ",", the fetched verses are
\* joined with single spaces and the text has no " | " separator.
C24_RangeJoinedWithSpaces ==
    (/\ fscript # "none"
     /\ fdata.verses # <<>>
     /\ Contains(freference, <<"-">>)
     /\ ~Contains(freference, <<",">>))
    => /\ fresult = JoinWithSpace(verse_texts(fscript, freference, fdata.verses))
       /\ ~Contains(fresult, PipeSeparator)

-----------------------------------------------------------------------------
(* What the claims about the rate limiter speak of: a call of _rate_limit   *)
(* is the step of a remote request; the window's start is                   *)
(* last_request_time before the call, the time of the return is now after.  *)

RateLimitReturns == nsent' = nsent + 1

\* C25 as stated: with 14 requests counted, the next call of _rate_limit
\* does not return before 31 seconds after the window's start and leaves the
\* counter at 1; after any call the counter is between 1 and 14.
C25_FullWindowWaits31 ==
    [][RateLimitReturns
       => /\ request_count' \in 1..RateLimit
          /\ request_count = RateLimit
             => /\ now' - last_request_time >= SleepUntil * PerSecond
                /\ request_count' = 1]_vars

\* C25, amended: with 14 requests counted, the next call of _rate_limit
\* returns only when more than 30 seconds have passed since the window's
\* start (a call made within the 30 seconds sleeps until the 31st), and
\* leaves the counter at 1; after any call the counter is between 1 and 14.
C25_FullWindowWaitsOutWindow ==
    [][RateLimitReturns
       => /\ request_count' \in 1..RateLimit
          /\ request_count = RateLimit
             => /\ now' - last_request_time > RateWindow * PerSecond
                /\ now - last_request_time <= RateWindow * PerSecond
                   => now' - last_request_time >= SleepUntil * PerSecond
                /\ request_count' = 1]_vars

\* The 15th request has slept and opened a new window.
C25_Witness ==
    /\ nsent = RateLimit + 1
    /\ lastCall.slept
    /\ request_count = 1

-----------------------------------------------------------------------------
\* C26: when the answer has more markers than the question has clauses, the
\* markers are assigned to the clauses in order and the last clause carries
\* the last marker of the answer, with that marker's proof texts.
C26_LastClauseCarriesLastMarker ==
    LET markers == FixerMarkers(pscript, panswer)
        n == Len(pclauses)
    IN  (/\ pscript # "none"
         /\ Len(markers) > n)
        => /\ presult # Raised
           /\ Len(presult) = n
           /\ \A i \in 1..(n - 1) : presult[i].footnoteNum = markers[i]
           /\ n > 0
              => /\ presult[n].footnoteNum = markers[Len(markers)]
                 /\ presult[n].proofTexts =
                        IF pscript = FixProofTexts
                        THEN FixerProofTexts(markers[Len(markers)])
                        ELSE FinalProofTexts(markers[Len(markers)])

-----------------------------------------------------------------------------
\* C27 as stated: a reference causes at most one remote request in a run,
\* whether the request succeeded or failed.
C27_OneRequestPerReference ==
    \A i, j \in RemoteLookups : looked[i].ref = looked[j].ref => i = j

\* C27, amended: a reference is requested again only after requests that
\* failed; once a request of it has succeeded no other is made, and the
\* script that reads the local data makes no request at all.
C27_OneAnsweredRequestPerReference ==
    /\ \A i, j \in RemoteLookups :
          (i < j /\ looked[i].ref = looked[j].ref) => looked[i].value = NoVerse
    /\ lscript \notin RemoteScripts => RemoteLookups = {}

\* A reference whose request failed was asked for again, and requested again.
C27_Witness ==
    /\ lscript \in RemoteScripts
    /\ Len(looked) = 2
    /\ looked[1].ref = looked[2].ref
    /\ looked[1].remote
    /\ looked[1].value = NoVerse
    /\ looked[2].remote
    /\ nsent = 2

-----------------------------------------------------------------------------
\* A step of the fetcher that is neither a remote request nor the passing of
\* time: get_verse_text answered from the cache.
AnsweredFromCache == nsent' = nsent /\ ticks' = ticks

\* C28: a lookup answered from the cache does not pass through the rate
\* limiter: it sends no request, leaves request_count and last_request_time
\* as they are, and does not sleep.
C28_CachedLookupSkipsRateLimit ==
    [][AnsweredFromCache
       => /\ request_count' = request_count
          /\ last_request_time' = last_request_time
          /\ sent' = sent
          /\ now' = now
          /\ ~lastCall'.slept
          /\ ~lastCall'.remote]_vars

\* With the 14 requests of the window counted, a lookup was answered from
\* the cache: the counter stays at 14 and nobody slept.
C28_Witness ==
    /\ request_count = RateLimit
    /\ nsent = RateLimit
    /\ lastCall.ref \in Refs
    /\ ~lastCall.remote
    /\ lastCall.value = cache[lastCall.ref]
    /\ now = StartTime

-----------------------------------------------------------------------------
\* The values of the markers of the token stream.
MarkerValues(ss) == {IntOf(ss[i].text) : i \in MarkerIndexes(ss)}

\* C29: every marker value of the answer's token stream is the footnote
\* number of some emitted clause, also when two markers are adjacent or a
\* marker is the first token.
C29_EveryMarkerOnSomeClause ==
    (segpc = "done" /\ script \in {MultiPage, ShorterNoRefs, ExtractLarger})
    => MarkerValues(spans) \subseteq Range(ClauseFootnotes(clauses))

-----------------------------------------------------------------------------
\* The spans of the page whose text is a number.
NumericSpans == {i \in 1..Len(gline) : IsDigit(Strip(gline[i].text))}

\* C30: every purely numeric token is taken as a page number or as a
\* footnote marker whatever its size, and none is appended to the text of a
\* clause (the body spans of the modelled pages hold no digit).
C30_NumbersNeverInClauseText ==
    gscript # "none"
    => /\ \A i \in NumericSpans :
             \/ SkippedAsPageNumber(gline[i])
             \/ IsFootnoteSpan(Span(Strip(gline[i].text), gline[i].font_size))
       /\ \A k \in 1..Len(gclauses) :
             \A j \in 1..Len(gclauses[k].text) : gclauses[k].text[j] \notin AllDigits

====
